---- MODULE Spec2Model ----
(***************************************************************************)
(* A model of the typed foreign-memory layer of gd.py (gd/memory):         *)
(* primitive field sizing (fields.py), the power-of-two helper (utils.py)  *)
(* and the two string representations std_string / old_std_string          *)
(* (string.py), which read and write a byte-addressed remote memory        *)
(* through the AbstractState port.                                         *)
(*                                                                         *)
(* Python values are modelled with their type: a str is a sequence of code *)
(* points, a bytes object a sequence of bytes, and the two never compare   *)
(* equal.  str.encode / bytes.decode are modelled as UTF-8.                *)
(***************************************************************************)
EXTENDS Integers, Sequences, FiniteSets, TLC

VARIABLES
    mem,        \* remote memory: address -> byte
    heapTop,    \* next address the remote allocator hands out
    blocks,     \* buffers of the remote process: set of [base, size]
    this,       \* the object (cursor or field descriptor) operated on
    call,       \* the last call made on `this`, with what it was observed to do
    ret         \* what the last call returned or raised

vars == <<mem, heapTop, blocks, this, call, ret>>

----------------------------------------------------------------------------
(* Bounds of the model *)

\* longest encoded string written, in bytes
MaxLen == 32
\* size of the modelled remote address space, in bytes
MemSize == 128

----------------------------------------------------------------------------
(* Python values *)

None == [type |-> "NoneType"]
Str(s) == [type |-> "str", val |-> s]
Bytes(b) == [type |-> "bytes", val |-> b]

Return(v) == [raised |-> "none", value |-> v]
Raise(e) == [raised |-> e, value |-> None]

NoCall == [name |-> "none"]

Max(a, b) == IF a >= b THEN a ELSE b

RECURSIVE Pow2(_)
Pow2(k) == IF k = 0 THEN 1 ELSE 2 * Pow2(k - 1)

RECURSIVE Repeat(_, _)
Repeat(s, n) == IF n = 0 THEN << >> ELSE s \o Repeat(s, n - 1)

----------------------------------------------------------------------------
(* str.encode() and bytes.decode(): UTF-8, strict.  Code points below      *)
(* 0x800 are modelled (one- and two-byte sequences); no lead byte of a     *)
(* three- or four-byte sequence (0xE0..0xF4) occurs within the bounds.     *)

encode_char(c) ==
    IF c < 128 THEN <<c>> ELSE <<192 + (c \div 64), 128 + (c % 64)>>

RECURSIVE encode(_)
encode(s) == IF s = << >> THEN << >> ELSE encode_char(Head(s)) \o encode(Tail(s))

RECURSIVE decode_from(_, _, _)
decode_from(b, i, acc) ==
    IF i > Len(b) THEN [ok |-> TRUE, text |-> acc]
    ELSE IF b[i] < 128 THEN decode_from(b, i + 1, Append(acc, b[i]))
    ELSE IF /\ b[i] >= 194 /\ b[i] <= 223
            /\ i + 1 <= Len(b)
            /\ b[i + 1] >= 128 /\ b[i + 1] <= 191
         THEN decode_from(b, i + 2, Append(acc, (b[i] - 192) * 64 + (b[i + 1] - 128)))
    ELSE [ok |-> FALSE, text |-> << >>]

\* [ok |-> FALSE] stands for UnicodeDecodeError
decode(b) == decode_from(b, 1, << >>)

----------------------------------------------------------------------------
(* gd/memory/utils.py *)

\* ceil(log2(value)); math.log2 is exact on the integers of the model's range.
\* log2 raises ValueError for value = 0, which no caller of the model passes.
RECURSIVE log2_ceil(_, _)
log2_ceil(value, k) == IF Pow2(k) >= value THEN k ELSE log2_ceil(value, k + 1)

closest_power_of_two_bits_floor(value) ==
    LET k == log2_ceil(value, 0) IN IF Pow2(k) = value THEN k ELSE k - 1

closest_power_of_two_bits(value) == log2_ceil(value, 0)

closest_power_of_two(value) == Pow2(closest_power_of_two_bits(value))

----------------------------------------------------------------------------
(* gd/binary_constants.py and gd/platform.py, as fields.py imports them *)

I8_SIZE == 1
U8_SIZE == 1
I16_SIZE == 2
U16_SIZE == 2
I32_SIZE == 4
U32_SIZE == 4
I64_SIZE == 8
U64_SIZE == 8
F32_SIZE == 4
F64_SIZE == 8

Bits == {8, 16, 32, 64}
Platforms == {"UNKNOWN", "ANDROID", "DARWIN", "LINUX", "WINDOWS"}
PlatformConfigs == [bits : Bits, platform : Platforms]

is_windows(platform) == platform = "WINDOWS"

----------------------------------------------------------------------------
(* gd/memory/fields.py: the primitive fields.  config is a PlatformConfig. *)
(* The kinds whose size depends on the platform come first; the fixed-width *)
(* kinds return their constant in the dispatch below.                      *)

ISize_compute_size(config) ==
    CASE config.bits = 8 -> I8_SIZE
      [] config.bits = 16 -> I16_SIZE
      [] config.bits = 32 -> I32_SIZE
      [] config.bits = 64 -> I64_SIZE

ISize_compute_alignment(config) ==
    CASE config.bits = 8 -> I8_SIZE
      [] config.bits = 16 -> I16_SIZE
      [] config.bits = 32 -> I32_SIZE
      [] config.bits = 64 -> I64_SIZE

USize_compute_size(config) ==
    CASE config.bits = 8 -> U8_SIZE
      [] config.bits = 16 -> U16_SIZE
      [] config.bits = 32 -> U32_SIZE
      [] config.bits = 64 -> U64_SIZE

USize_compute_alignment(config) ==
    CASE config.bits = 8 -> U8_SIZE
      [] config.bits = 16 -> U16_SIZE
      [] config.bits = 32 -> U32_SIZE
      [] config.bits = 64 -> U64_SIZE

\* Int sized like a pointer-wide integer on 64-bit targets
Int_compute_size_pointer_wide(config) ==
    IF config.bits < 32 THEN I16_SIZE
    ELSE IF config.bits = 64 THEN I64_SIZE ELSE I32_SIZE

Int_compute_size(config) ==
    IF config.bits < 32 THEN I16_SIZE ELSE I32_SIZE

Int_compute_alignment(config) ==
    IF config.bits < 32 THEN I16_SIZE ELSE I32_SIZE

UInt_compute_size(config) ==
    IF config.bits < 32 THEN U16_SIZE ELSE U32_SIZE

UInt_compute_alignment(config) ==
    IF config.bits < 32 THEN U16_SIZE ELSE U32_SIZE

Long_compute_size_any_64(config) ==
    IF config.bits > 32 THEN I64_SIZE ELSE I32_SIZE

Long_compute_size(config) ==
    IF config.bits > 32 /\ ~is_windows(config.platform) THEN I64_SIZE ELSE I32_SIZE

Long_compute_alignment_any_64(config) ==
    IF config.bits > 32 THEN I64_SIZE ELSE I32_SIZE

Long_compute_alignment(config) ==
    IF config.bits > 32 /\ ~is_windows(config.platform) THEN I64_SIZE ELSE I32_SIZE

ULong_compute_size(config) ==
    IF config.bits > 32 /\ ~is_windows(config.platform) THEN U64_SIZE ELSE U32_SIZE

ULong_compute_alignment(config) ==
    IF config.bits > 32 /\ ~is_windows(config.platform) THEN U64_SIZE ELSE U32_SIZE

\* Size that stays 4 bytes on 64-bit Windows, the way Long does
Size_compute_size_windows_32(config) ==
    CASE config.bits = 8 -> I8_SIZE
      [] config.bits = 16 -> I16_SIZE
      [] config.bits = 32 -> I32_SIZE
      [] config.bits = 64 -> IF is_windows(config.platform) THEN I32_SIZE ELSE I64_SIZE

Size_compute_size(config) ==
    CASE config.bits = 8 -> I8_SIZE
      [] config.bits = 16 -> I16_SIZE
      [] config.bits = 32 -> I32_SIZE
      [] config.bits = 64 -> I64_SIZE

Size_compute_alignment(config) ==
    CASE config.bits = 8 -> I8_SIZE
      [] config.bits = 16 -> I16_SIZE
      [] config.bits = 32 -> I32_SIZE
      [] config.bits = 64 -> I64_SIZE

ScalarKinds ==
    {"I8", "U8", "I16", "U16", "I32", "U32", "I64", "U64", "ISize", "USize",
     "F32", "F64", "Byte", "UByte", "Short", "UShort", "Int", "UInt", "Long",
     "ULong", "LongLong", "ULongLong", "Size", "Float", "Double"}

\* field.compute_size(config) for a primitive field, by the field's class
scalar_compute_size(kind, config) ==
    CASE kind = "I8" -> I8_SIZE
      [] kind = "U8" -> U8_SIZE
      [] kind = "I16" -> I16_SIZE
      [] kind = "U16" -> U16_SIZE
      [] kind = "I32" -> I32_SIZE
      [] kind = "U32" -> U32_SIZE
      [] kind = "I64" -> I64_SIZE
      [] kind = "U64" -> U64_SIZE
      [] kind = "ISize" -> ISize_compute_size(config)
      [] kind = "USize" -> USize_compute_size(config)
      [] kind = "F32" -> F32_SIZE
      [] kind = "F64" -> F64_SIZE
      [] kind = "Byte" -> I8_SIZE
      [] kind = "UByte" -> U8_SIZE
      [] kind = "Short" -> I16_SIZE
      [] kind = "UShort" -> U16_SIZE
      [] kind = "Int" -> Int_compute_size(config)
      [] kind = "UInt" -> UInt_compute_size(config)
      [] kind = "Long" -> Long_compute_size(config)
      [] kind = "ULong" -> ULong_compute_size(config)
      [] kind = "LongLong" -> I64_SIZE
      [] kind = "ULongLong" -> U64_SIZE
      [] kind = "Size" -> Size_compute_size(config)
      [] kind = "Float" -> F32_SIZE
      [] kind = "Double" -> F64_SIZE

\* every primitive packed to the byte
scalar_compute_alignment_packed(kind, config) == I8_SIZE
\* field.compute_alignment(config) for a primitive field, by the field's class
scalar_compute_alignment(kind, config) ==
    CASE kind = "I8" -> I8_SIZE
      [] kind = "U8" -> U8_SIZE
      [] kind = "I16" -> I16_SIZE
      [] kind = "U16" -> U16_SIZE
      [] kind = "I32" -> I32_SIZE
      [] kind = "U32" -> U32_SIZE
      [] kind = "I64" -> I64_SIZE
      [] kind = "U64" -> U64_SIZE
      [] kind = "ISize" -> ISize_compute_alignment(config)
      [] kind = "USize" -> USize_compute_alignment(config)
      [] kind = "F32" -> F32_SIZE
      [] kind = "F64" -> F64_SIZE
      [] kind = "Byte" -> I8_SIZE
      [] kind = "UByte" -> U8_SIZE
      [] kind = "Short" -> I16_SIZE
      [] kind = "UShort" -> U16_SIZE
      [] kind = "Int" -> Int_compute_alignment(config)
      [] kind = "UInt" -> UInt_compute_alignment(config)
      [] kind = "Long" -> Long_compute_alignment(config)
      [] kind = "ULong" -> ULong_compute_alignment(config)
      [] kind = "LongLong" -> I64_SIZE
      [] kind = "ULongLong" -> U64_SIZE
      [] kind = "Size" -> Size_compute_alignment(config)
      [] kind = "Float" -> F32_SIZE
      [] kind = "Double" -> F64_SIZE

----------------------------------------------------------------------------
(* gd/memory/fields.py: ArrayField.  An array field is                     *)
(* [type |-> "ArrayField", element |-> kind, length |-> << >> or <<n>>];   *)
(* << >> is Python's None.                                                 *)

ArrayField(element, length) ==
    [type |-> "ArrayField", element |-> element, length |-> length]

ArrayField_compute_size_unchecked(self, config) ==
    IF self.length = << >>
    THEN Return(0)
    ELSE Return(scalar_compute_size(self.element, config) * self.length[1])

ArrayField_compute_size(self, config) ==
    IF self.length = << >>
    THEN Raise("TypeError")
    ELSE Return(scalar_compute_size(self.element, config) * self.length[1])

ArrayField_compute_alignment(self, config) ==
    scalar_compute_alignment(self.element, config)

----------------------------------------------------------------------------
(* The AbstractState port (gd/memory/state.py): raw and typed access to    *)
(* the remote memory, little-endian, and the remote allocator.             *)

Addresses == 0 .. (MemSize - 1)

mapped(address, size) == address >= 0 /\ address + size <= MemSize

\* state.read_at(address, size): the bytes, as a sequence
read_at(m, address, size) == [i \in 1 .. size |-> m[address + i - 1]]

\* state.write_at(address, data)
write_at(m, address, data) ==
    [a \in DOMAIN m |->
        IF a >= address /\ a < address + Len(data) THEN data[a - address + 1] ELSE m[a]]

\* Integers beyond Far lie outside the modelled address space whatever their
\* exact value: they are all read as Far.
Far == 256 * 256 * 64

\* little-endian bytes to an unsigned integer
RECURSIVE from_bytes(_)
from_bytes(b) ==
    IF b = << >> THEN 0
    ELSE LET high == from_bytes(Tail(b))
         IN  IF high >= Far \div 256 THEN Far ELSE Head(b) + 256 * high

\* little-endian bytes to a signed integer, two's complement
RECURSIVE from_bytes_signed(_)
from_bytes_signed(b) ==
    IF Len(b) = 1 THEN (IF b[1] >= 128 THEN b[1] - 256 ELSE b[1])
    ELSE LET high == from_bytes_signed(Tail(b))
         IN  IF high >= Far \div 256 THEN Far
             ELSE IF high < 0 - (Far \div 256) THEN 0 - Far
             ELSE Head(b) + 256 * high

\* an integer to size little-endian bytes (two's complement when negative)
RECURSIVE to_bytes(_, _)
to_bytes(value, size) ==
    IF size = 0 THEN << >> ELSE <<value % 256>> \o to_bytes(value \div 256, size - 1)

\* state.read_usize / write_usize and the pointer accessors: size bytes, unsigned
read_unsigned(m, address, size) == from_bytes(read_at(m, address, size))
write_unsigned(m, address, value, size) == write_at(m, address, to_bytes(value, size))

\* state.read_isize / write_isize: size bytes, two's complement
read_signed(m, address, size) == from_bytes_signed(read_at(m, address, size))
write_signed(m, address, value, size) == write_at(m, address, to_bytes(value, size))

\* state.allocate(size): the remote allocator hands out the next free range
allocate(top, size) == top

\* what state.allocate raises when the port fails
ALLOCATE_ERROR == "MemoryAccessError"

\* Array.write(data) of gd/memory/array.py, as string.py uses it on the
\* character arrays: the bytes go to the array's own address
Array_write(m, address, data) == write_at(m, address, data)

----------------------------------------------------------------------------
(* Layout of the composite types string.py declares (the layout engine of  *)
(* gd/memory/base.py): struct fields in declaration order, each rounded up *)
(* to its alignment; union members all at offset 0.                        *)

round_up(cursor, alignment) ==
    IF alignment = 0 \/ cursor % alignment = 0
    THEN cursor
    ELSE cursor + alignment - (cursor % alignment)

\* char_t
char_size == I8_SIZE
\* mut_pointer(...): one machine word
pointer_size(config) == USize_compute_size(config)

CONTENT_SIZE == 16
NULL_BYTE == <<0>>

\* class std_string_content(Union): inline array of CONTENT_SIZE chars, pointer
std_string_content_size(config) == Max(CONTENT_SIZE * char_size, pointer_size(config))
std_string_content_alignment(config) == Max(char_size, pointer_size(config))

\* class std_string(Struct): content, length, capacity
std_string_content_offset(config) == 0
std_string_length_offset(config) ==
    round_up(std_string_content_offset(config) + std_string_content_size(config),
             USize_compute_alignment(config))
std_string_capacity_offset(config) ==
    round_up(std_string_length_offset(config) + USize_compute_size(config),
             USize_compute_alignment(config))
std_string_size(config) ==
    round_up(std_string_capacity_offset(config) + USize_compute_size(config),
             Max(std_string_content_alignment(config), USize_compute_alignment(config)))

\* class old_std_long_string(Struct, origin=3): capacity, length, ref_count
\* before the origin, the unsized content at it; size is the header alone
old_std_long_string_size(config) ==
    2 * USize_compute_size(config) + ISize_compute_size(config)
old_std_long_string_capacity_offset(config) == 0 - old_std_long_string_size(config)
old_std_long_string_length_offset(config) ==
    old_std_long_string_capacity_offset(config) + USize_compute_size(config)
old_std_long_string_ref_count_offset(config) ==
    old_std_long_string_length_offset(config) + USize_compute_size(config)
old_std_long_string_content_offset(config) == 0

\* class old_std_string(Struct): pointer
old_std_string_size(config) == pointer_size(config)

\* a field of a composite: a primitive, a sized array, or a pointer
PointerField == [type |-> "Pointer"]

field_compute_size(field, config) ==
    CASE field.type = "ArrayField" -> ArrayField_compute_size(field, config).value
      [] field.type = "Pointer" -> pointer_size(config)
      [] OTHER -> scalar_compute_size(field.type, config)

field_compute_alignment(field, config) ==
    CASE field.type = "ArrayField" -> ArrayField_compute_alignment(field, config)
      [] field.type = "Pointer" -> pointer_size(config)
      [] OTHER -> scalar_compute_alignment(field.type, config)

\* Struct.compute_layout: each field at the cursor rounded up to its alignment,
\* the cursor moved past it
RECURSIVE struct_offsets(_, _, _)
struct_offsets(fields, config, cursor) ==
    IF fields = << >> THEN << >>
    ELSE LET offset == round_up(cursor, field_compute_alignment(Head(fields), config))
         IN  <<offset>> \o struct_offsets(Tail(fields), config,
                                offset + field_compute_size(Head(fields), config))

\* the cursor after the last field
struct_cursor(fields, config, offsets) ==
    IF fields = << >> THEN 0
    ELSE offsets[Len(fields)] + field_compute_size(fields[Len(fields)], config)

\* the largest alignment of the members, 1 at least
RECURSIVE composite_alignment(_, _)
composite_alignment(fields, config) ==
    IF fields = << >> THEN 1
    ELSE Max(field_compute_alignment(Head(fields), config),
             composite_alignment(Tail(fields), config))

struct_size(cursor, alignment) == round_up(cursor, alignment)

Struct_compute_layout(fields, config) ==
    LET offsets == struct_offsets(fields, config, 0)
        alignment == composite_alignment(fields, config)
    IN  [offsets |-> offsets, alignment |-> alignment,
         size |-> struct_size(struct_cursor(fields, config, offsets), alignment)]

\* a union as large as its first member
union_size_first(fields, config) ==
    IF fields = << >> THEN 0 ELSE field_compute_size(Head(fields), config)
\* Union.compute_layout: the size of the largest member
RECURSIVE union_size(_, _)
union_size(fields, config) ==
    IF fields = << >> THEN 0
    ELSE Max(field_compute_size(Head(fields), config), union_size(Tail(fields), config))

Union_compute_layout(fields, config) ==
    [offsets |-> [i \in 1 .. Len(fields) |-> 0],
     alignment |-> composite_alignment(fields, config),
     size |-> union_size(fields, config)]

\* ActualField.__get__ / __set__: the field of an instance lives at
\* instance.address + field.offset
field_address(instance_address, offset) == instance_address + offset

----------------------------------------------------------------------------
(* gd/memory/string.py: std_string.  self is [type, address, config].      *)

\* growth taken as soon as the buffer is exactly full
std_string_needs_growth_or_equal(length, capacity) == length >= capacity
std_string_needs_growth(length, capacity) == length > capacity

std_string_fits_inline_off_by_one(length, content_size) == length <= content_size
std_string_fits_inline(length, content_size) == length < content_size

std_string_inline_capacity_no_terminator(content_size) == content_size
std_string_inline_capacity(content_size) == content_size - 1

std_string_heap_size_exact(size) == size
std_string_heap_size(size) == closest_power_of_two(size)

\* capacity that forgets the byte of the terminator
std_string_heap_capacity_full(size) == size
std_string_heap_capacity(size) == size - 1

std_string_writes_inline(capacity, content_size) == capacity < content_size

std_string_reads_inline(capacity, content_size) == capacity < content_size

\* what set_value leaves behind: the memory, the allocator, and what it did
Effect(m, top, allocs, writes, result) ==
    [mem |-> m, heapTop |-> top, allocs |-> allocs, writes |-> writes, ret |-> result]
Extent(address, data) == [address |-> address, size |-> Len(data)]

\* the memory when state.allocate is called: self.length = length has run
std_string_before_allocate(m, length_set) == length_set

\* fails: the port fails the allocate call, if one is made
std_string_set_value(self, m, top, value, fails) ==
    LET config == self.config
        usize == USize_compute_size(config)
        content == field_address(self.address, std_string_content_offset(config))
        length_address == field_address(self.address, std_string_length_offset(config))
        capacity_address == field_address(self.address, std_string_capacity_offset(config))
        content_size == std_string_content_size(config)
        capacity == read_unsigned(m, capacity_address, usize)
        encoded == encode(value)
        length == Len(encoded)
        data == encoded \o NULL_BYTE
        size == Len(data)
        m1 == write_unsigned(m, length_address, length, usize)
    IN  IF std_string_needs_growth(length, capacity)
        THEN IF std_string_fits_inline(length, content_size)
             THEN LET m2 == write_unsigned(m1, capacity_address,
                                           std_string_inline_capacity(content_size), usize)
                      m3 == write_at(m2, content, data)
                  IN  Effect(m3, top, << >>, <<Extent(content, data)>>, Return(None))
             ELSE LET new_size == std_string_heap_size(size)
                      address == allocate(top, new_size)
                      m2 == write_unsigned(m1, content, address, pointer_size(config))
                      m3 == write_unsigned(m2, capacity_address,
                                           std_string_heap_capacity(new_size), usize)
                      target == read_unsigned(m3, content, pointer_size(config))
                      m4 == write_at(m3, target, data)
                  IN  IF fails
                      THEN Effect(std_string_before_allocate(m, m1), top, << >>, << >>,
                                  Raise(ALLOCATE_ERROR))
                      ELSE Effect(m4, top + new_size,
                                  <<[base |-> address, size |-> new_size]>>,
                                  <<Extent(target, data)>>, Return(None))
        ELSE IF std_string_writes_inline(capacity, content_size)
             THEN Effect(Array_write(m1, content, data), top, << >>,
                         <<Extent(content, data)>>, Return(None))
             ELSE LET target == read_unsigned(m1, content, pointer_size(config))
                  IN  Effect(Array_write(m1, target, data), top, << >>,
                             <<Extent(target, data)>>, Return(None))

\* the second try of get_value: the bytes at the address the pointer slot holds.
\* EMPTY_STRING is a name string.py never defines or imports: reaching
\* `return EMPTY_STRING` raises NameError.
std_string_get_value_pointer(self, m, length) ==
    LET content == field_address(self.address, std_string_content_offset(self.config))
        target == read_unsigned(m, content, pointer_size(self.config))
    IN  IF ~mapped(target, length) THEN Raise("MemoryAccessError")
        ELSE LET decoded == decode(read_at(m, target, length))
             IN  IF decoded.ok THEN Return(Str(decoded.text)) ELSE Raise("NameError")

std_string_get_value(self, m) ==
    LET config == self.config
        usize == USize_compute_size(config)
        content == field_address(self.address, std_string_content_offset(config))
        capacity == read_unsigned(m, field_address(self.address,
                                     std_string_capacity_offset(config)), usize)
        length == read_unsigned(m, field_address(self.address,
                                   std_string_length_offset(config)), usize)
    IN  IF std_string_reads_inline(capacity, std_string_content_size(config))
        THEN IF ~mapped(content, length) THEN Raise("MemoryAccessError")
             ELSE LET decoded == decode(read_at(m, content, length))
                  IN  IF decoded.ok THEN Return(Str(decoded.text))
                      ELSE std_string_get_value_pointer(self, m, length)
        ELSE std_string_get_value_pointer(self, m, length)

----------------------------------------------------------------------------
(* gd/memory/fields.py: read and write of the primitive fields.  Each      *)
(* delegates to one typed accessor of the state; the tables give, class by *)
(* class, the <T> of the state.read_<T> and of the state.write_<T> called. *)

Field_read_type(kind) ==
    CASE kind = "I8" -> "i8"
      [] kind = "U8" -> "u8"
      [] kind = "I16" -> "i16"
      [] kind = "U16" -> "u16"
      [] kind = "I32" -> "i32"
      [] kind = "U32" -> "u32"
      [] kind = "I64" -> "i64"
      [] kind = "U64" -> "u64"
      [] kind = "ISize" -> "isize"
      [] kind = "USize" -> "usize"
      [] kind = "F32" -> "f32"
      [] kind = "F64" -> "f64"
      [] kind = "Byte" -> "byte"
      [] kind = "UByte" -> "ubyte"
      [] kind = "Short" -> "short"
      [] kind = "UShort" -> "ushort"
      [] kind = "Int" -> "int"
      [] kind = "UInt" -> "uint"
      [] kind = "Long" -> "long"
      [] kind = "ULong" -> "ulong"
      [] kind = "LongLong" -> "longlong"
      [] kind = "ULongLong" -> "ulonglong"
      [] kind = "Size" -> "size"
      [] kind = "Float" -> "float"
      [] kind = "Double" -> "double"

Field_write_type(kind) ==
    CASE kind = "I8" -> "i8"
      [] kind = "U8" -> "u8"
      [] kind = "I16" -> "i16"
      [] kind = "U16" -> "u16"
      [] kind = "I32" -> "i32"
      [] kind = "U32" -> "u32"
      [] kind = "I64" -> "i64"
      [] kind = "U64" -> "u64"
      [] kind = "ISize" -> "isize"
      [] kind = "USize" -> "usize"
      [] kind = "F32" -> "f32"
      [] kind = "F64" -> "f64"
      [] kind = "Byte" -> "byte"
      [] kind = "UByte" -> "ubyte"
      [] kind = "Short" -> "short"
      [] kind = "UShort" -> "ushort"
      [] kind = "Int" -> "int"
      [] kind = "UInt" -> "uint"
      [] kind = "Long" -> "long"
      [] kind = "ULong" -> "ulong"
      [] kind = "LongLong" -> "longlong"
      [] kind = "ULongLong" -> "ulonglong"
      [] kind = "Size" -> "size"
      [] kind = "Float" -> "float"
      [] kind = "Double" -> "double"

\* the typed accessors of the state: the primitive each read_<T> / write_<T>
\* pair serves, whose size for the state's platform is the width of the codec
typed_kind(type) ==
    CASE type = "i8" -> "I8"
      [] type = "u8" -> "U8"
      [] type = "i16" -> "I16"
      [] type = "u16" -> "U16"
      [] type = "i32" -> "I32"
      [] type = "u32" -> "U32"
      [] type = "i64" -> "I64"
      [] type = "u64" -> "U64"
      [] type = "isize" -> "ISize"
      [] type = "usize" -> "USize"
      [] type = "f32" -> "F32"
      [] type = "f64" -> "F64"
      [] type = "byte" -> "Byte"
      [] type = "ubyte" -> "UByte"
      [] type = "short" -> "Short"
      [] type = "ushort" -> "UShort"
      [] type = "int" -> "Int"
      [] type = "uint" -> "UInt"
      [] type = "long" -> "Long"
      [] type = "ulong" -> "ULong"
      [] type = "longlong" -> "LongLong"
      [] type = "ulonglong" -> "ULongLong"
      [] type = "size" -> "Size"
      [] type = "float" -> "Float"
      [] type = "double" -> "Double"

typed_size(type, config) == scalar_compute_size(typed_kind(type), config)

SignedTypes ==
    {"i8", "i16", "i32", "i64", "isize", "byte", "short", "int", "long", "longlong"}
FloatTypes == {"f32", "f64", "float", "double"}

\* ByteOrder; NATIVE is the order of the machine the state lives on
Orders == {"NATIVE", "LITTLE", "BIG"}

RECURSIVE Reverse(_)
Reverse(s) == IF s = << >> THEN << >> ELSE Reverse(Tail(s)) \o <<Head(s)>>

\* little-endian bytes put in (or taken from) the order asked for
ordered(bytes, order, native) ==
    IF (IF order = "NATIVE" THEN native ELSE order) = "BIG" THEN Reverse(bytes) ELSE bytes

\* a float: zero, or (-1)^sign * 2^exponent * (1 + fraction / 16)
Float(sign, exponent, fraction) ==
    [type |-> "float", zero |-> FALSE, sign |-> sign, exponent |-> exponent,
     fraction |-> fraction]
FloatZero == [type |-> "float", zero |-> TRUE, sign |-> 0, exponent |-> 0, fraction |-> 0]

\* IEEE 754 binary32 / binary64, little-endian: sign, biased exponent, and
\* the fraction in the top bits of the mantissa
float_to_bytes(value, size) ==
    IF value.zero THEN Repeat(<<0>>, size)
    ELSE IF size = F32_SIZE
    THEN LET e == value.exponent + 127
         IN  <<0, 0, (e % 2) * 128 + value.fraction * 8, value.sign * 128 + e \div 2>>
    ELSE LET e == value.exponent + 1023
         IN  <<0, 0, 0, 0, 0, 0, (e % 16) * 16 + value.fraction,
               value.sign * 128 + e \div 16>>

\* a bit pattern that is none of the floats above is kept as it is
float_from_bytes(bytes) ==
    LET size == Len(bytes)
        high == bytes[size]
        next == bytes[size - 1]
        sign == high \div 128
        e == IF size = F32_SIZE THEN (high % 128) * 2 + next \div 128
             ELSE (high % 128) * 16 + next \div 16
        bias == IF size = F32_SIZE THEN 127 ELSE 1023
        fraction == IF size = F32_SIZE THEN (next % 128) \div 8 ELSE next % 16
        value == IF bytes = Repeat(<<0>>, size) THEN FloatZero
                 ELSE Float(sign, e - bias, fraction)
    IN  IF float_to_bytes(value, size) = bytes THEN value
        ELSE [type |-> "float", pattern |-> bytes]

\* state.read_<T>(address, order)
state_read(type, m, address, order, state) ==
    LET bytes == ordered(read_at(m, address, typed_size(type, state.config)),
                         order, state.native)
    IN  IF type \in FloatTypes THEN float_from_bytes(bytes)
        ELSE IF type \in SignedTypes THEN from_bytes_signed(bytes)
        ELSE from_bytes(bytes)

\* state.write_<T>(address, value, order)
state_write(type, m, address, value, order, state) ==
    LET size == typed_size(type, state.config)
        bytes == IF type \in FloatTypes THEN float_to_bytes(value, size)
                 ELSE to_bytes(value, size)
    IN  write_at(m, address, ordered(bytes, order, state.native))

\* Field.read(state, address, order)
Field_read(kind, m, address, order, state) ==
    state_read(Field_read_type(kind), m, address, order, state)

\* a write that leaves the order to the state
Field_write_native(kind, m, address, value, order, state) ==
    state_write(Field_write_type(kind), m, address, value, "NATIVE", state)
\* Field.write(state, address, value, order)
Field_write(kind, m, address, value, order, state) ==
    state_write(Field_write_type(kind), m, address, value, order, state)

----------------------------------------------------------------------------
(* gd/memory/fields.py: ArrayField.read, and the Array proxy it returns    *)

\* ArrayField.read(state, address, order): the proxy, bound to what it was
\* given; the state is not accessed
ArrayField_read(self, state, address, order) ==
    [type |-> "Array", state |-> state, address |-> address,
     element |-> self.element, length |-> self.length, order |-> order]

\* a write that stores a byte at the address of the array
ArrayField_write_through(self, m, state, address, value, order) ==
    write_at(m, address, <<1>>)
\* ArrayField.write(state, address, value, order): `pass`, the memory afterwards
ArrayField_write(self, m, state, address, value, order) == m

\* an index that may be the length itself
Array_in_bounds_inclusive(length, index) == length = << >> \/ index <= length[1]
\* the bounds rule of get and set: an array of unknown length has no bound
Array_in_bounds(length, index) == length = << >> \/ index < length[1]

Array_element_address(self, index) ==
    self.address + index * scalar_compute_size(self.element, self.state.config)

\* array.get(index) / array[index]
Array_get(self, m, index) ==
    IF ~Array_in_bounds(self.length, index) THEN Raise("IndexError")
    ELSE Return(Field_read(self.element, m, Array_element_address(self, index),
                           self.order, self.state))

\* array.set(index, value) / array[index] = value: the memory afterwards
Array_set(self, m, index, value) ==
    IF ~Array_in_bounds(self.length, index) THEN m
    ELSE Field_write(self.element, m, Array_element_address(self, index), value,
                     self.order, self.state)

----------------------------------------------------------------------------
(* gd/memory/fields.py: fetch_fields.  A type is its mro: the class bodies *)
(* from the type itself to object, each the sequence of its attributes     *)
(* [name, value] in the order they were declared.                          *)

\* is_instance(value, Field)
is_field(value) == value.type \in ScalarKinds

\* dict(...): a pair with a new key goes to the end, a pair with a key the
\* table holds replaces the value where the key is
dict_set(table, pair) ==
    IF \E i \in 1 .. Len(table) : table[i].name = pair.name
    THEN [i \in 1 .. Len(table) |->
             IF table[i].name = pair.name THEN pair ELSE table[i]]
    ELSE Append(table, pair)

RECURSIVE dict_update(_, _)
dict_update(table, pairs) ==
    IF pairs = << >> THEN table
    ELSE dict_update(dict_set(table, Head(pairs)), Tail(pairs))

\* the attributes of the classes, one class after the other, that are fields
RECURSIVE fields_of(_)
fields_of(types) ==
    IF types = << >> THEN << >>
    ELSE SelectSeq(Head(types), LAMBDA attribute : is_field(attribute.value))
             \o fields_of(Tail(types))

\* the classes visited in the order of the mro, the type itself first
fetch_fields_iterator_derived_first(base) == fields_of(base.mro)
\* fetch_fields_iterator(base): for type in reversed(base.mro())
fetch_fields_iterator(base) == fields_of(Reverse(base.mro))

fetch_fields(base) == dict_update(<< >>, fetch_fields_iterator(base))

----------------------------------------------------------------------------
(* gd/memory/fields.py: ActualField, the descriptor a composite type holds *)
(* for each field.  self is [type, field]; field is a primitive with its   *)
(* offset; instance is None (access through the type), a Base instance     *)
(* [type, state, address, order], or some other object.                    *)

ActualField(field) == [type |-> "ActualField", field |-> field]

Base(state, address, order) ==
    [type |-> "Base", state |-> state, address |-> address, order |-> order]

\* a read at the address of the instance itself
ActualField_get_no_offset(self, instance, m) ==
    IF instance.type = "Base"
    THEN Field_read(self.field.type, m, instance.address, instance.order, instance.state)
    ELSE self.field
\* ActualField.__get__(instance, type)
ActualField_get(self, instance, m) ==
    IF instance = None THEN self.field
    ELSE IF instance.type = "Base"
    THEN Field_read(self.field.type, m, field_address(instance.address, self.field.offset),
                    instance.order, instance.state)
    ELSE self.field

\* ActualField.__set__(instance, value): the memory afterwards
ActualField_set(self, instance, m, value) ==
    Field_write(self.field.type, m, field_address(instance.address, self.field.offset),
                value, instance.order, instance.state)

\* ActualField.__delete__(instance)
ActualField_delete(self, instance) == Raise("AttributeError")

----------------------------------------------------------------------------
(* gd/memory/special.py: Void                                              *)

ZERO_SIZE == 0

Void == [type |-> "Void"]

\* Void.read(state, address, order): None
Void_read(self, state, address, order) == None

\* Void.write(state, address, value, order): `pass`, the memory afterwards
Void_write(self, m, state, address, value, order) == m

Void_compute_size(config) == ZERO_SIZE

\* a marker aligned like a byte
Void_compute_alignment_byte(config) == I8_SIZE
Void_compute_alignment(config) == ZERO_SIZE

----------------------------------------------------------------------------
(* gd/memory/string.py: old_std_string.  self is [type, address, config];  *)
(* its pointer holds the address of the content, the header lies before.   *)

\* a new buffer for every write
old_std_string_needs_growth_always(length, capacity) == length >= 0
old_std_string_needs_growth(length, capacity) == length > capacity

old_std_string_heap_size_no_header(size, header_size) == closest_power_of_two(size)
old_std_string_heap_size(size, header_size) == closest_power_of_two(size + header_size)

\* capacity that forgets the byte of the terminator
old_std_string_heap_capacity_no_terminator(size, header_size) == size - header_size
old_std_string_heap_capacity(size, header_size) == size - header_size - 1

\* a set_value that sets the length first, as std_string's does
old_std_string_before_allocate_length_set(m, length_set) == length_set
\* the memory when state.allocate is called: nothing has been written yet
old_std_string_before_allocate(m, length_set) == m

\* fails: the port fails the allocate call, if one is made
old_std_string_set_value(self, m, top, value, fails) ==
    LET config == self.config
        usize == USize_compute_size(config)
        isize == ISize_compute_size(config)
        header_size == old_std_long_string_size(config)
        pointer == field_address(self.address, 0)
        long_string == read_unsigned(m, pointer, pointer_size(config))
        ref_count == read_signed(m, field_address(long_string,
                         old_std_long_string_ref_count_offset(config)), isize)
        capacity == read_unsigned(m, field_address(long_string,
                         old_std_long_string_capacity_offset(config)), usize)
        encoded == encode(value)
        length == Len(encoded)
        data == encoded \o NULL_BYTE
        size == Len(data)
    IN  IF old_std_string_needs_growth(length, capacity)
        THEN LET new_size == old_std_string_heap_size(size, header_size)
                 address == allocate(top, new_size)
                 m1 == write_unsigned(m, pointer, address + header_size, pointer_size(config))
                 new_string == read_unsigned(m1, pointer, pointer_size(config))
                 m2 == write_unsigned(m1, field_address(new_string,
                           old_std_long_string_capacity_offset(config)),
                           old_std_string_heap_capacity(new_size, header_size), usize)
                 m3 == write_signed(m2, field_address(new_string,
                           old_std_long_string_ref_count_offset(config)), ref_count, isize)
                 m4 == write_unsigned(m3, field_address(new_string,
                           old_std_long_string_length_offset(config)), length, usize)
                 target == field_address(new_string, old_std_long_string_content_offset(config))
             IN  IF fails
                 THEN Effect(old_std_string_before_allocate(m,
                                 write_unsigned(m, field_address(long_string,
                                     old_std_long_string_length_offset(config)),
                                     length, usize)),
                             top, << >>, << >>, Raise(ALLOCATE_ERROR))
                 ELSE Effect(write_at(m4, target, data), top + new_size,
                             <<[base |-> address, size |-> new_size]>>,
                             <<Extent(target, data)>>, Return(None))
        ELSE LET m1 == write_unsigned(m, field_address(long_string,
                           old_std_long_string_length_offset(config)), length, usize)
                 target == field_address(long_string, old_std_long_string_content_offset(config))
             IN  Effect(write_at(m1, target, data), top, << >>,
                        <<Extent(target, data)>>, Return(None))

\* read_at returns bytes and get_value returns them as they are: no decode()
\* is applied, so no UnicodeDecodeError can arise in the try block
old_std_string_get_value(self, m) ==
    LET config == self.config
        long_string == read_unsigned(m, field_address(self.address, 0), pointer_size(config))
        length == read_unsigned(m, field_address(long_string,
                      old_std_long_string_length_offset(config)), USize_compute_size(config))
        content == field_address(long_string, old_std_long_string_content_offset(config))
    IN  IF ~mapped(content, length) THEN Raise("MemoryAccessError")
        ELSE Return(Bytes(read_at(m, content, length)))

----------------------------------------------------------------------------
(* The strings under test and the values written to them *)

StringConfigs == {[bits |-> 32, platform |-> "WINDOWS"], [bits |-> 64, platform |-> "LINUX"]}

\* what memory nobody has written holds
Fills == {0, 255}

\* a text of encoded length len: all 'a', or as many U+00E9 (two bytes each) as fit
Text(len, kind) ==
    IF kind = "ascii" THEN Repeat(<<97>>, len)
    ELSE Repeat(<<97>>, len % 2) \o Repeat(<<233>>, len \div 2)

\* texts with encoded lengths at the inline boundary (15, 16), at the boundary
\* of the first heap size (31) and beyond it
Values ==
    {Text(0, "ascii"), Text(CONTENT_SIZE - 1, "ascii"), Text(CONTENT_SIZE, "latin"),
     Text(2 * CONTENT_SIZE - 1, "latin"), Text(MaxLen, "ascii")}

Blank(fill) == [a \in Addresses |-> fill]

std_string_at(config) == [type |-> "std_string", address |-> 0, config |-> config]
old_std_string_at(config) == [type |-> "old_std_string", address |-> 0, config |-> config]

\* a std_string of zeroed memory: length 0, capacity 0
StdZeroed(config, fill) ==
    write_at(Blank(fill), 0, Repeat(<<0>>, std_string_size(config)))

\* an empty std_string as the target process builds it: inline, capacity 15
StdInline(config, fill) ==
    LET m1 == write_at(Blank(fill), std_string_content_offset(config), NULL_BYTE)
        m2 == write_unsigned(m1, std_string_length_offset(config), 0, USize_compute_size(config))
    IN  write_unsigned(m2, std_string_capacity_offset(config), CONTENT_SIZE - 1,
                       USize_compute_size(config))

\* a std_string of 16 characters on the heap: capacity 31, a buffer of 32 bytes
StdHeapBlock(config) == [base |-> std_string_size(config), size |-> 2 * CONTENT_SIZE]
StdHeap(config, fill) ==
    LET block == StdHeapBlock(config)
        m1 == write_unsigned(Blank(fill), std_string_content_offset(config), block.base,
                             pointer_size(config))
        m2 == write_unsigned(m1, std_string_length_offset(config), CONTENT_SIZE,
                             USize_compute_size(config))
        m3 == write_unsigned(m2, std_string_capacity_offset(config), block.size - 1,
                             USize_compute_size(config))
    IN  write_at(m3, block.base, Repeat(<<97>>, CONTENT_SIZE) \o NULL_BYTE)

\* an empty old_std_string: a header and one terminator byte in the smallest buffer
OldBlock(config) ==
    [base |-> old_std_string_size(config),
     size |-> closest_power_of_two(1 + old_std_long_string_size(config))]
RefCounts == {-1, 2}
OldEmpty(config, fill, ref_count) ==
    LET block == OldBlock(config)
        header_size == old_std_long_string_size(config)
        long_string == block.base + header_size
        m1 == write_unsigned(Blank(fill), 0, long_string, pointer_size(config))
        m2 == write_unsigned(m1, long_string + old_std_long_string_capacity_offset(config),
                             block.size - header_size - 1, USize_compute_size(config))
        m3 == write_unsigned(m2, long_string + old_std_long_string_length_offset(config),
                             0, USize_compute_size(config))
        m4 == write_signed(m3, long_string + old_std_long_string_ref_count_offset(config),
                           ref_count, ISize_compute_size(config))
    IN  write_at(m4, long_string, NULL_BYTE)

InitString ==
    /\ call = NoCall
    /\ ret = Return(None)
    /\ \E config \in StringConfigs, fill \in Fills :
        \/ /\ this = std_string_at(config)
           /\ \/ /\ mem = StdHeap(config, fill)
                 /\ heapTop = StdHeapBlock(config).base + StdHeapBlock(config).size
                 /\ blocks = {StdHeapBlock(config)}
              \/ /\ mem = StdInline(config, fill)
                 /\ heapTop = std_string_size(config)
                 /\ blocks = {}
              \/ /\ mem = StdZeroed(config, fill)
                 /\ heapTop = std_string_size(config)
                 /\ blocks = {}
        \/ /\ this = old_std_string_at(config)
           /\ \E ref_count \in RefCounts : mem = OldEmpty(config, fill, ref_count)
           /\ heapTop = OldBlock(config).base + OldBlock(config).size
           /\ blocks = {OldBlock(config)}

\* the fields of the std_string in memory m
std_string_length(self, m) ==
    read_unsigned(m, field_address(self.address, std_string_length_offset(self.config)),
                  USize_compute_size(self.config))
std_string_capacity(self, m) ==
    read_unsigned(m, field_address(self.address, std_string_capacity_offset(self.config)),
                  USize_compute_size(self.config))
std_string_pointer(self, m) ==
    read_unsigned(m, field_address(self.address, std_string_content_offset(self.config)),
                  pointer_size(self.config))

\* the fields of the header the old_std_string in memory m points to
old_std_string_pointer(self, m) ==
    read_unsigned(m, field_address(self.address, 0), pointer_size(self.config))
old_std_string_length(self, m) ==
    read_unsigned(m, field_address(old_std_string_pointer(self, m),
                      old_std_long_string_length_offset(self.config)),
                  USize_compute_size(self.config))
old_std_string_capacity(self, m) ==
    read_unsigned(m, field_address(old_std_string_pointer(self, m),
                      old_std_long_string_capacity_offset(self.config)),
                  USize_compute_size(self.config))
old_std_string_ref_count(self, m) ==
    read_signed(m, field_address(old_std_string_pointer(self, m),
                    old_std_long_string_ref_count_offset(self.config)),
                ISize_compute_size(self.config))

SetValueCall(value, capacity, effect) ==
    [name |-> "set_value", value |-> value, capacity |-> capacity,
     allocs |-> effect.allocs, writes |-> effect.writes,
     failed |-> effect.ret.raised # "none"]

Apply(effect) ==
    /\ effect.heapTop <= MemSize
    /\ mem' = effect.mem
    /\ heapTop' = effect.heapTop
    /\ blocks' = blocks \cup {effect.allocs[i] : i \in 1 .. Len(effect.allocs)}
    /\ ret' = effect.ret

\* string.value = value on a std_string
StdSetValue ==
    /\ this.type = "std_string"
    /\ \E value \in Values, fails \in BOOLEAN :
        LET effect == std_string_set_value(this, mem, heapTop, value, fails)
        IN  /\ Apply(effect)
            /\ call' = SetValueCall(value, std_string_capacity(this, mem), effect)
    /\ UNCHANGED this

\* string.value on a std_string
StdGetValue ==
    /\ this.type = "std_string"
    /\ call' = [name |-> "get_value"]
    /\ ret' = std_string_get_value(this, mem)
    /\ UNCHANGED <<mem, heapTop, blocks, this>>

\* string.value = value on an old_std_string
OldSetValue ==
    /\ this.type = "old_std_string"
    /\ \E value \in Values, fails \in BOOLEAN :
        LET effect == old_std_string_set_value(this, mem, heapTop, value, fails)
        IN  /\ Apply(effect)
            /\ call' = SetValueCall(value, old_std_string_capacity(this, mem), effect)
    /\ UNCHANGED this

\* string.value on an old_std_string
OldGetValue ==
    /\ this.type = "old_std_string"
    /\ call' = [name |-> "get_value"]
    /\ ret' = old_std_string_get_value(this, mem)
    /\ UNCHANGED <<mem, heapTop, blocks, this>>

NextString == StdSetValue \/ StdGetValue \/ OldSetValue \/ OldGetValue

SpecString == InitString /\ [][NextString]_vars

----------------------------------------------------------------------------
(* Reading strings out of memory the target process wrote: any bytes may   *)
(* be there, valid text or not.                                            *)

\* where the bytes the heap pointer leads to are placed
ReadHeap(config) == std_string_size(config)

\* two-byte patterns the content is filled with: ASCII, U+00E9, an invalid
\* byte, and a lead byte that no continuation byte follows
Patterns == {<<97, 98>>, <<195, 169>>, <<255, 255>>, <<97, 195>>}

ReadLengths(config) == {0, 2, pointer_size(config) + 2}

\* a std_string with the given fields; the inline buffer holds the pointer
\* slot's bytes followed by `tail` bytes, the heap holds `pattern` repeated
StdStored(config, capacity, length, tail, target, pattern) ==
    LET usize == USize_compute_size(config)
        m1 == write_at(Blank(0), std_string_content_offset(config),
                       Repeat(<<tail>>, CONTENT_SIZE))
        m2 == write_unsigned(m1, std_string_content_offset(config), target,
                             pointer_size(config))
        m3 == write_unsigned(m2, std_string_length_offset(config), length, usize)
        m4 == write_unsigned(m3, std_string_capacity_offset(config), capacity, usize)
    IN  write_at(m4, ReadHeap(config), Repeat(pattern, CONTENT_SIZE))

\* an old_std_string whose content holds `pattern` repeated
OldStored(config, length, pattern) ==
    LET usize == USize_compute_size(config)
        header_size == old_std_long_string_size(config)
        long_string == old_std_string_size(config) + header_size
        m1 == write_unsigned(Blank(0), 0, long_string, pointer_size(config))
        m2 == write_unsigned(m1, long_string + old_std_long_string_capacity_offset(config),
                             2 * CONTENT_SIZE - 1, usize)
        m3 == write_unsigned(m2, long_string + old_std_long_string_length_offset(config),
                             length, usize)
    IN  write_at(m3, long_string, Repeat(pattern, CONTENT_SIZE))

InitRead ==
    /\ call = NoCall
    /\ ret = Return(None)
    /\ heapTop = MemSize
    /\ blocks = {}
    /\ \E config \in StringConfigs, pattern \in Patterns :
        \/ /\ this = std_string_at(config)
           /\ \E capacity \in {CONTENT_SIZE - 1, 2 * CONTENT_SIZE - 1},
                 length \in ReadLengths(config), tail \in {97, 255},
                 target \in {ReadHeap(config), Far} :
                 mem = StdStored(config, capacity, length, tail, target, pattern)
        \/ /\ this = old_std_string_at(config)
           /\ \E length \in ReadLengths(config) : mem = OldStored(config, length, pattern)

NextRead == StdGetValue \/ OldGetValue

SpecRead == InitRead /\ [][NextRead]_vars

----------------------------------------------------------------------------
(* Size and alignment of field descriptors, for every platform             *)

\* longest declared array length
MaxArrayLength == 3

ArrayElements == {"U8", "U16", "USize", "Long", "F64"}
ArrayLengths == {<< >>} \cup {<<n>> : n \in 0 .. MaxArrayLength}
ArrayFields == {ArrayField(element, length) : element \in ArrayElements, length \in ArrayLengths}

InitFields ==
    /\ this \in {[type |-> kind] : kind \in ScalarKinds} \cup ArrayFields
    /\ call = NoCall
    /\ ret = Return(None)
    /\ mem = Blank(0)
    /\ heapTop = 0
    /\ blocks = {}

\* field.compute_size(config): takes no state, touches no memory
ComputeSize ==
    /\ \E config \in PlatformConfigs :
        /\ call' = [name |-> "compute_size", config |-> config]
        /\ ret' = IF this.type = "ArrayField"
                  THEN ArrayField_compute_size(this, config)
                  ELSE Return(scalar_compute_size(this.type, config))
    /\ UNCHANGED <<mem, heapTop, blocks, this>>

\* field.compute_alignment(config)
ComputeAlignment ==
    /\ \E config \in PlatformConfigs :
        /\ call' = [name |-> "compute_alignment", config |-> config]
        /\ ret' = IF this.type = "ArrayField"
                  THEN Return(ArrayField_compute_alignment(this, config))
                  ELSE Return(scalar_compute_alignment(this.type, config))
    /\ UNCHANGED <<mem, heapTop, blocks, this>>

NextFields == ComputeSize \/ ComputeAlignment

SpecFields == InitFields /\ [][NextFields]_vars

----------------------------------------------------------------------------
(* closest_power_of_two on every integer of a range                        *)

\* largest argument of closest_power_of_two
MaxValue == 130

InitUtils ==
    /\ this \in {[type |-> "int", value |-> n] : n \in 1 .. MaxValue}
    /\ call = NoCall
    /\ ret = Return(None)
    /\ mem = Blank(0)
    /\ heapTop = 0
    /\ blocks = {}

ClosestPowerOfTwo ==
    /\ call' = [name |-> "closest_power_of_two", value |-> this.value]
    /\ ret' = Return(closest_power_of_two(this.value))
    /\ UNCHANGED <<mem, heapTop, blocks, this>>

ClosestPowerOfTwoBits ==
    /\ call' = [name |-> "closest_power_of_two_bits", value |-> this.value]
    /\ ret' = Return(closest_power_of_two_bits(this.value))
    /\ UNCHANGED <<mem, heapTop, blocks, this>>

NextUtils == ClosestPowerOfTwo \/ ClosestPowerOfTwoBits

SpecUtils == InitUtils /\ [][NextUtils]_vars

\* every call of the model, on every kind of object
----------------------------------------------------------------------------
(* Writing and reading one primitive field through a state                 *)

PrimitiveConfigs ==
    {[bits |-> 16, platform |-> "UNKNOWN"], [bits |-> 64, platform |-> "LINUX"]}
NativeOrders == {"LITTLE", "BIG"}

\* where the field is accessed: two slots, the second one unaligned
FieldAddresses == {CONTENT_SIZE, 2 * CONTENT_SIZE + 1}

SignedKinds ==
    {"I8", "I16", "I32", "I64", "ISize", "Byte", "Short", "Int", "Long", "LongLong"}
FloatKinds == {"F32", "F64", "Float", "Double"}

\* 2^(8 * size - 1), up to what the integers of the model hold
HalfRange(size) ==
    IF size = I8_SIZE THEN 128 ELSE IF size = I16_SIZE THEN 128 * 256 ELSE Far \div 2

\* values the kind can represent on the platform: the ends of its range (1
\* for the unsigned kinds), and floats of either sign with a fraction
Representable(kind, config) ==
    LET half == HalfRange(scalar_compute_size(kind, config))
    IN  IF kind \in FloatKinds
        THEN {Float(1, 1, 8), Float(0, -2, 15)}
        ELSE IF kind \in SignedKinds THEN {0 - half, half - 1}
        ELSE {1, 2 * half - 1}

\* a primitive field and the state it is accessed through
PrimitiveFields == [type : ScalarKinds, config : PrimitiveConfigs, native : NativeOrders]

InitPrimitive ==
    /\ this \in PrimitiveFields
    /\ call = NoCall
    /\ ret = Return(None)
    /\ mem = Blank(0)
    /\ heapTop = 0
    /\ blocks = {}

\* field.write(state, address, value, order)
FieldWrite ==
    /\ this \in PrimitiveFields
    /\ \E address \in FieldAddresses, order \in Orders,
          value \in Representable(this.type, this.config) :
        /\ mem' = Field_write(this.type, mem, address, value, order, this)
        /\ call' = [name |-> "write", address |-> address, order |-> order,
                    value |-> value]
    /\ ret' = Return(None)
    /\ UNCHANGED <<heapTop, blocks, this>>

\* field.read(state, address, order); the call keeps the write it came right
\* after when that was to the same address in the same order
FieldRead ==
    /\ this \in PrimitiveFields
    /\ \E address \in FieldAddresses, order \in Orders :
        /\ ret' = Return(Field_read(this.type, mem, address, order, this))
        /\ call' = [name |-> "read", address |-> address, order |-> order,
                    last |-> IF /\ call.name = "write"
                                /\ call.address = address
                                /\ call.order = order
                             THEN call ELSE NoCall]
    /\ UNCHANGED <<mem, heapTop, blocks, this>>

NextPrimitive == FieldWrite \/ FieldRead

SpecPrimitive == InitPrimitive /\ [][NextPrimitive]_vars

----------------------------------------------------------------------------
(* Computing the layout of struct and union definitions                    *)

MaxFields == 3

\* the members: primitives of every width, the two members of
\* std_string_content, and a kind whose size follows the operating system
LayoutFields ==
    {[type |-> "U8"], [type |-> "U16"], [type |-> "U32"], [type |-> "Long"],
     ArrayField("I8", <<CONTENT_SIZE>>), PointerField}

LayoutConfigs == [bits : Bits, platform : {"LINUX", "WINDOWS"}]

FieldLists == UNION {[1 .. n -> LayoutFields] : n \in 0 .. MaxFields}

InitLayout ==
    /\ this \in [type : {"Struct", "Union"}, fields : FieldLists]
    /\ call = NoCall
    /\ ret = Return(None)
    /\ mem = Blank(0)
    /\ heapTop = 0
    /\ blocks = {}

\* the layout of the composite for a platform
ComputeLayout ==
    /\ this.type \in {"Struct", "Union"}
    /\ \E config \in LayoutConfigs :
        /\ call' = [name |-> "compute_layout", config |-> config]
        /\ ret' = Return(IF this.type = "Struct"
                         THEN Struct_compute_layout(this.fields, config)
                         ELSE Union_compute_layout(this.fields, config))
    /\ UNCHANGED <<mem, heapTop, blocks, this>>

NextLayout == ComputeLayout

SpecLayout == InitLayout /\ [][NextLayout]_vars

----------------------------------------------------------------------------
(* Indexing the Array proxy an ArrayField.read returned                    *)

ProxyElements == {"U8", "U16", "Long"}
ProxyLengths == {<< >>} \cup {<<n>> : n \in 0 .. (MaxArrayLength + 1)}
ProxyIndices == 0 .. (MaxArrayLength + 2)
ProxyStates ==
    {[config |-> [bits |-> 32, platform |-> "WINDOWS"], native |-> "LITTLE"],
     [config |-> [bits |-> 64, platform |-> "LINUX"], native |-> "LITTLE"]}

\* the value an element is set to: 1, or the least value of a signed kind
ProxyValue(self) ==
    IF self.element \in SignedKinds
    THEN 0 - HalfRange(scalar_compute_size(self.element, self.state.config))
    ELSE 1

InitArray ==
    /\ \E element \in ProxyElements, length \in ProxyLengths, state \in ProxyStates,
          order \in {"NATIVE", "BIG"} :
        this = ArrayField_read(ArrayField(element, length), state, CONTENT_SIZE, order)
    /\ call = NoCall
    /\ ret = Return(None)
    /\ mem = Blank(0)
    /\ heapTop = 0
    /\ blocks = {}

\* what an access of the element at index touches: nothing when out of bounds
ProxyAccesses(self, index) ==
    IF ~Array_in_bounds(self.length, index) THEN << >>
    ELSE <<[address |-> Array_element_address(self, index),
            size |-> scalar_compute_size(self.element, self.state.config)]>>

\* array[index]
ArrayGet ==
    /\ this.type = "Array"
    /\ \E index \in ProxyIndices :
        /\ ret' = Array_get(this, mem, index)
        /\ call' = [name |-> "get", index |-> index,
                    accesses |-> ProxyAccesses(this, index)]
    /\ UNCHANGED <<mem, heapTop, blocks, this>>

\* array[index] = value
ArraySet ==
    /\ this.type = "Array"
    /\ \E index \in ProxyIndices :
        /\ mem' = Array_set(this, mem, index, ProxyValue(this))
        /\ ret' = IF Array_in_bounds(this.length, index)
                  THEN Return(None) ELSE Raise("IndexError")
        /\ call' = [name |-> "set", index |-> index, value |-> ProxyValue(this),
                    accesses |-> ProxyAccesses(this, index)]
    /\ UNCHANGED <<heapTop, blocks, this>>

NextArray == ArrayGet \/ ArraySet

SpecArray == InitArray /\ [][NextArray]_vars

----------------------------------------------------------------------------
(* Reading and writing through the descriptors that hold no data of their  *)
(* own: ArrayField and Void                                                *)

\* where the descriptor is applied: inside the memory and outside of it
AccessAddresses == {CONTENT_SIZE, MemSize + CONTENT_SIZE}

\* named fields of three kinds at two offsets, reached through the type,
\* through an instance of a composite, or through an object that is neither
NamedFields == {[type |-> kind, offset |-> offset] :
                    kind \in {"U8", "Short", "Long"}, offset \in {0, I32_SIZE}}
Instances ==
    {None, [type |-> "object"]}
        \cup {Base(state, CONTENT_SIZE, order) :
                  state \in ProxyStates, order \in {"NATIVE", "BIG"}}
BoundFields ==
    {[type |-> "ActualField", field |-> field, instance |-> instance] :
        field \in NamedFields, instance \in Instances}

InitAccess ==
    /\ this \in ArrayFields \cup {Void} \cup BoundFields
    /\ call = NoCall
    /\ ret = Return(None)
    /\ mem \in {Blank(fill) : fill \in Fills}
    /\ heapTop = 0
    /\ blocks = {}

\* field.read(state, address, order)
DescriptorRead ==
    /\ this.type \in {"ArrayField", "Void"}
    /\ \E state \in ProxyStates, address \in AccessAddresses, order \in Orders :
        /\ call' = [name |-> "read", state |-> state, address |-> address,
                    order |-> order]
        /\ ret' = Return(IF this.type = "ArrayField"
                         THEN ArrayField_read(this, state, address, order)
                         ELSE Void_read(this, state, address, order))
    /\ UNCHANGED <<mem, heapTop, blocks, this>>

\* field.write(state, address, value, order): an ArrayField is given an Array
\* proxy, Void is given None
DescriptorWrite ==
    /\ this.type \in {"ArrayField", "Void"}
    /\ \E state \in ProxyStates, address \in AccessAddresses, order \in Orders :
        /\ call' = [name |-> "write", state |-> state, address |-> address,
                    order |-> order]
        /\ mem' = IF this.type = "ArrayField"
                  THEN ArrayField_write(this, mem, state, address,
                           ArrayField_read(this, state, 0, order), order)
                  ELSE Void_write(this, mem, state, address, None, order)
    /\ ret' = Return(None)
    /\ UNCHANGED <<heapTop, blocks, this>>

\* Void.compute_size(config) and Void.compute_alignment(config)
VoidCompute ==
    /\ this.type = "Void"
    /\ \E config \in PlatformConfigs :
        \/ /\ call' = [name |-> "compute_size", config |-> config]
           /\ ret' = Return(Void_compute_size(config))
        \/ /\ call' = [name |-> "compute_alignment", config |-> config]
           /\ ret' = Return(Void_compute_alignment(config))
    /\ UNCHANGED <<mem, heapTop, blocks, this>>

\* instance.name, or Type.name
ActualGet ==
    /\ this.type = "ActualField"
    /\ call' = [name |-> "get"]
    /\ ret' = Return(ActualField_get(ActualField(this.field), this.instance, mem))
    /\ UNCHANGED <<mem, heapTop, blocks, this>>

\* instance.name = value
ActualSet ==
    /\ this.type = "ActualField" /\ this.instance.type = "Base"
    /\ \E value \in Representable(this.field.type, this.instance.state.config) :
        /\ call' = [name |-> "set", value |-> value]
        /\ mem' = ActualField_set(ActualField(this.field), this.instance, mem, value)
    /\ ret' = Return(None)
    /\ UNCHANGED <<heapTop, blocks, this>>

\* del instance.name
ActualDelete ==
    /\ this.type = "ActualField" /\ this.instance.type = "Base"
    /\ call' = [name |-> "delete"]
    /\ ret' = ActualField_delete(ActualField(this.field), this.instance)
    /\ UNCHANGED <<mem, heapTop, blocks, this>>

NextAccess ==
    \/ DescriptorRead \/ DescriptorWrite \/ VoidCompute
    \/ ActualGet \/ ActualSet \/ ActualDelete

SpecAccess == InitAccess /\ [][NextAccess]_vars

----------------------------------------------------------------------------
(* Collecting the fields of a type and of its ancestors                    *)

MaxChain == 2

\* what a class body binds a name to: one of two fields, or something else
AttributeValues == {[type |-> "U8"], [type |-> "U16"], [type |-> "int"]}
AttributeNames == {"a", "b"}

\* the bodies: every name at most once, in either order
ClassBodies ==
    {<< >>}
        \cup {<<[name |-> n, value |-> v]>> : n \in AttributeNames, v \in AttributeValues}
        \cup {body \in {<<[name |-> n1, value |-> v1], [name |-> n2, value |-> v2]>> :
                             n1 \in AttributeNames, n2 \in AttributeNames,
                             v1 \in AttributeValues, v2 \in AttributeValues} :
                  body[1].name # body[2].name}

\* a type with up to MaxChain - 1 ancestors; object, the last of every mro,
\* declares nothing
Types ==
    {[type |-> "type", mro |-> chain \o <<<< >>>>] :
        chain \in UNION {[1 .. n -> ClassBodies] : n \in 1 .. MaxChain}}

InitFetch ==
    /\ this \in Types
    /\ call = NoCall
    /\ ret = Return(None)
    /\ mem = Blank(0)
    /\ heapTop = 0
    /\ blocks = {}

\* fetch_fields(base), with what the iterator yielded
FetchFields ==
    /\ this.type = "type"
    /\ call' = [name |-> "fetch_fields", yielded |-> fetch_fields_iterator(this)]
    /\ ret' = Return(fetch_fields(this))
    /\ UNCHANGED <<mem, heapTop, blocks, this>>

NextFetch == FetchFields

SpecFetch == InitFetch /\ [][NextFetch]_vars

----------------------------------------------------------------------------
(* ProfileModel: the active flag and its negation, banned                  *)

Bool(b) == [type |-> "bool", val |-> b]

\* the banned getter
ProfileModel_get_banned(self) == ~self.active

\* the banned setter: self.active = not self.banned, which reads the getter
\* and never the argument
ProfileModel_set_banned(self, banned) ==
    [self EXCEPT !.active = ~ProfileModel_get_banned(self)]

\* plain assignment to an attribute of the attrs class
ProfileModel_set_attribute(self, name, value) == [self EXCEPT ![name] = value]

MaxRank == 3

\* the profiles the constructor builds, in the fields followed here
ProfileModels ==
    [type : {"ProfileModel"}, active : BOOLEAN, glow : BOOLEAN, rank : 0 .. MaxRank]

ProfileAssignments ==
    [name : {"active", "glow"}, value : BOOLEAN]
        \cup [name : {"rank"}, value : 0 .. MaxRank]

InitProfile ==
    /\ this \in ProfileModels
    /\ call = NoCall
    /\ ret = Return(None)
    /\ mem = Blank(0)
    /\ heapTop = 0
    /\ blocks = {}

\* profile.banned
GetBanned ==
    /\ this.type = "ProfileModel"
    /\ call' = [name |-> "get_banned"]
    /\ ret' = Return(Bool(ProfileModel_get_banned(this)))
    /\ UNCHANGED <<mem, heapTop, blocks, this>>

\* profile.banned = banned
SetBanned ==
    /\ this.type = "ProfileModel"
    /\ \E banned \in BOOLEAN :
          /\ this' = ProfileModel_set_banned(this, banned)
          /\ call' = [name |-> "set_banned", banned |-> banned, active |-> this.active]
    /\ ret' = Return(None)
    /\ UNCHANGED <<mem, heapTop, blocks>>

\* profile.active = value, and the like
SetAttribute ==
    /\ this.type = "ProfileModel"
    /\ \E assignment \in ProfileAssignments :
          /\ this' = ProfileModel_set_attribute(this, assignment.name, assignment.value)
          /\ call' = [name |-> "set_attribute", attribute |-> assignment.name]
    /\ ret' = Return(None)
    /\ UNCHANGED <<mem, heapTop, blocks>>

NextProfile == GetBanned \/ SetBanned \/ SetAttribute

SpecProfile == InitProfile /\ [][NextProfile]_vars

----------------------------------------------------------------------------
(* convert_animation_sheet_data: frames of a plist document, by animation  *)
(* A dict is the sequence of its items in insertion order.  A frame or     *)
(* layer name is the record of the groups FRAME_NAME or LAYER_NAME finds   *)
(* in it, the numerals as sequences of decimal digits.                     *)

\* int(text) of a decimal numeral
RECURSIVE int(_)
int(digits) ==
    IF digits = << >> THEN 0
    ELSE 10 * int(SubSeq(digits, 1, Len(digits) - 1)) + digits[Len(digits)]

\* list.insert(index, item): an index past the end appends
list_insert(list, index, item) ==
    LET n == Len(list)
        at == IF index < 0 THEN Max(index + n, 0) ELSE IF index > n THEN n ELSE index
    IN SubSeq(list, 1, at) \o <<item>> \o SubSeq(list, at + 1, n)

get_animation_name_index(frame_name) ==
    [name |-> frame_name.name, index |-> int(frame_name.frame) - 1]

get_layer_part(layer_name) == int(layer_name.part)

get_z(layer_dict) == int(layer_dict.z_value)

\* sorted(values, key=get_z): ascending and stable
RECURSIVE sorted_by_z(_)
sorted_by_z(values) ==
    IF values = << >> THEN << >>
    ELSE LET n == Len(values)
             last == values[n]
             rest == sorted_by_z(SubSeq(values, 1, n - 1))
             keep == Cardinality({i \in 1 .. n - 1 : get_z(rest[i]) <= get_z(last)})
         IN SubSeq(rest, 1, keep) \o <<last>> \o SubSeq(rest, keep + 1, n - 1)

\* the LayerData of a layer, in its part; position, scale, rotation and the
\* flips are parsed from the same layer and carried with it
convert_layer(layer_dict) == [part |-> get_layer_part(layer_dict.texture)]

\* data[name] of the default_dict(list)
data_get(data, name) == IF name \in DOMAIN data THEN data[name] ELSE << >>

\* the loop over document.animation_container.items(), from item i on
RECURSIVE convert_animation_frames(_, _, _)
convert_animation_frames(items, i, data) ==
    IF i > Len(items) THEN data
    ELSE LET found == get_animation_name_index(items[i].key)
             layer_dicts == sorted_by_z(items[i].value)
             frame_data == [j \in 1 .. Len(layer_dicts) |-> convert_layer(layer_dicts[j])]
             frames == list_insert(data_get(data, found.name), found.index, frame_data)
         IN convert_animation_frames(items, i + 1,
                [name \in DOMAIN data \cup {found.name} |->
                    IF name = found.name THEN frames ELSE data[name]])

convert_animation_sheet_data(document) ==
    convert_animation_frames(document.animation_container, 1, << >>)

MaxFrames == 3
MaxLayers == 3

\* the frames 1..n of "run" and 1..m of "idle"
FrameKeys(n, m) ==
    {[name |-> "run", frame |-> k] : k \in 1 .. n}
        \cup {[name |-> "idle", frame |-> k] : k \in 1 .. m}

\* every order in which a container can hold the keys
KeyOrders(keys) ==
    {order \in [1 .. Cardinality(keys) -> keys] :
        \A i, j \in 1 .. Cardinality(keys) : i # j => order[i] # order[j]}

Numeral(k) == <<0, k \div 10, k % 10>>

\* layer j of a frame; its part number tells the frames of a name apart
LayerPart(key, j) == (key.frame - 1) * MaxLayers + j

LayerDict(key, j, z_value) ==
    [texture |-> [type |-> "robot", id |-> Numeral(1), part |-> Numeral(LayerPart(key, j)),
                  frame |-> Numeral(key.frame), suffix |-> "png"],
     z_value |-> z_value]

\* the z values of the layers of a frame, in the order of the plist: one
\* layer, "10" before "2", and "2", "10", "02"
ZValues == {z \in {<<<<2>>>>, <<<<1, 0>>, <<2>>>>, <<<<2>>, <<1, 0>>, <<0, 2>>>>} :
               Len(z) <= MaxLayers}

FrameItem(key, z_values) ==
    [key |-> [type |-> "Robot", name |-> key.name, frame |-> Numeral(key.frame),
              suffix |-> "png"],
     value |-> [j \in 1 .. Len(z_values) |-> LayerDict(key, j, z_values[j])]]

AnimationDocuments ==
    {[type |-> "document",
      animation_container |-> [i \in 1 .. Len(order) |-> FrameItem(order[i], z_values)]] :
        order \in UNION {KeyOrders(FrameKeys(n, m)) :
                             n \in 1 .. MaxFrames, m \in 0 .. MaxFrames - 1},
        z_values \in ZValues}

InitConvert ==
    /\ this \in AnimationDocuments
    /\ call = NoCall
    /\ ret = Return(None)
    /\ mem = Blank(0)
    /\ heapTop = 0
    /\ blocks = {}

ConvertAnimationSheetData ==
    /\ this.type = "document"
    /\ call' = [name |-> "convert_animation_sheet_data"]
    /\ ret' = Return(convert_animation_sheet_data(this))
    /\ UNCHANGED <<mem, heapTop, blocks, this>>

NextConvert == ConvertAnimationSheetData

SpecConvert == InitConvert /\ [][NextConvert]_vars

----------------------------------------------------------------------------
(* AnimationSheet: the data of a sheet file, loaded on demand              *)
(* A call gives the sheet it leaves, its result, and whether it went       *)
(* through load.  file is what opening and parsing the path gives at the   *)
(* time of the call: a document, or the error raised.                      *)

SheetEffect(self, result, loads) == [self |-> self, ret |-> result, loads |-> loads]

AnimationSheet_get_data(self) ==
    IF self.data_unchecked = None THEN Raise("ValueError")
    ELSE Return(self.data_unchecked)

AnimationSheet_set_data(self, data) == [self EXCEPT !.data_unchecked = data]

AnimationSheet_delete_data(self) == [self EXCEPT !.data_unchecked = None]

\* a load whose except clause does not reset the flag
AnimationSheet_load_keeps_loaded(self, file) ==
    LET marked == [self EXCEPT !.loaded = TRUE]
    IN IF file.ok
       THEN SheetEffect(AnimationSheet_set_data(marked, file.document), Return(None), TRUE)
       ELSE SheetEffect(marked, Raise(file.error), TRUE)

\* load, and reload, which is the same function
AnimationSheet_load(self, file) ==
    LET marked == [self EXCEPT !.loaded = TRUE]
    IN IF file.ok
       THEN SheetEffect(AnimationSheet_set_data(marked, file.document), Return(None), TRUE)
       ELSE SheetEffect([marked EXCEPT !.loaded = FALSE], Raise(file.error), TRUE)

AnimationSheet_unload(self) ==
    SheetEffect(AnimationSheet_delete_data([self EXCEPT !.loaded = FALSE]),
                Return(None), FALSE)

AnimationSheet_is_loaded(self) == self.loaded

AnimationSheet_ensure_loaded(self, file) ==
    IF ~self.loaded THEN AnimationSheet_load(self, file)
    ELSE SheetEffect(self, Return(None), FALSE)

MaxCalls == 4

\* the sheet documents a file can hold: string mappings
SheetDocuments == {[type |-> "dict", val |-> "run"], [type |-> "dict", val |-> "idle"]}
\* what path.open() or json.load raise
LoadErrors == {"FileNotFoundError", "JSONDecodeError"}

NoFile == [ok |-> FALSE, error |-> "none"]
SheetFiles ==
    {[ok |-> TRUE, document |-> document] : document \in SheetDocuments}
        \cup {[ok |-> FALSE, error |-> error] : error \in LoadErrors}

\* the record of a call in the log: the flag before it, whether it went
\* through load and what the file gave then
SheetCall(name, self, effect, file) ==
    [name |-> name, loaded |-> self.loaded, loads |-> effect.loads,
     file |-> IF effect.loads THEN file ELSE NoFile]

InitSheet ==
    /\ this = [type |-> "AnimationSheet", data_unchecked |-> None, loaded |-> FALSE]
    /\ call = [name |-> "none", log |-> << >>]
    /\ ret = Return(None)
    /\ mem = Blank(0)
    /\ heapTop = 0
    /\ blocks = {}

IsSheet == this.type = "AnimationSheet"

\* a call that changes the sheet, entered in the log
SheetCalled(name, effect, file) ==
    /\ this' = effect.self
    /\ ret' = effect.ret
    /\ call' = [name |-> name, log |-> Append(call.log, SheetCall(name, this, effect, file))]
    /\ UNCHANGED <<mem, heapTop, blocks>>

Load ==
    /\ IsSheet /\ Len(call.log) < MaxCalls
    /\ \E file \in SheetFiles : SheetCalled("load", AnimationSheet_load(this, file), file)

Unload ==
    /\ IsSheet /\ Len(call.log) < MaxCalls
    /\ SheetCalled("unload", AnimationSheet_unload(this), NoFile)

EnsureLoaded ==
    /\ IsSheet /\ Len(call.log) < MaxCalls
    /\ \E file \in SheetFiles :
          SheetCalled("ensure_loaded", AnimationSheet_ensure_loaded(this, file), file)

IsLoaded ==
    /\ IsSheet
    /\ call' = [call EXCEPT !.name = "is_loaded"]
    /\ ret' = Return(Bool(AnimationSheet_is_loaded(this)))
    /\ UNCHANGED <<mem, heapTop, blocks, this>>

\* sheet.data
GetData ==
    /\ IsSheet
    /\ call' = [call EXCEPT !.name = "get_data"]
    /\ ret' = AnimationSheet_get_data(this)
    /\ UNCHANGED <<mem, heapTop, blocks, this>>

NextSheet == Load \/ Unload \/ EnsureLoaded \/ IsLoaded \/ GetData

SpecSheet == InitSheet /\ [][NextSheet]_vars

Init == InitString \/ InitRead \/ InitFields \/ InitUtils \/ InitPrimitive \/ InitLayout
        \/ InitArray \/ InitAccess \/ InitFetch \/ InitProfile \/ InitConvert
        \/ InitSheet
Next == NextString \/ NextFields \/ NextUtils \/ NextPrimitive \/ NextLayout
        \/ NextArray \/ NextAccess \/ NextFetch \/ NextProfile \/ NextConvert
        \/ NextSheet
Spec == Init /\ [][Next]_vars

----------------------------------------------------------------------------
(* Properties of the strings                                               *)

IsStd == this.type = "std_string"
IsOld == this.type = "old_std_string"
\* the last call was a set_value that returned
WasSet == call.name = "set_value" /\ ~call.failed

\* the encoded length of the value of the last set_value
WrittenLength == Len(encode(call.value))
\* the encoded value and its terminator
WrittenData == encode(call.value) \o NULL_BYTE

InlineAddress == field_address(this.address, std_string_content_offset(this.config))

RECURSIVE IsPowerOfTwo(_)
IsPowerOfTwo(n) == n = 1 \/ (n > 1 /\ n % 2 = 0 /\ IsPowerOfTwo(n \div 2))

SmallestPowerOfTwoAtLeast(power, n) ==
    /\ IsPowerOfTwo(power)
    /\ power >= n
    /\ (power = 1 \/ power \div 2 < n)

\* the bytes of the last write lie at address and were the only ones written
WroteAt(address) ==
    /\ call.writes = <<[address |-> address, size |-> WrittenLength + 1]>>
    /\ read_at(mem, address, WrittenLength + 1) = WrittenData

\* C1: after any sequence of std_string.set_value calls, get_value returns
\* exactly the last value written, as text, whichever path each write took.
C1_StdRoundTrip ==
    (IsStd /\ WasSet) => std_string_get_value(this, mem) = Return(Str(call.value))

\* a two-byte-character text written in place into a heap buffer reads back
C1_Witness ==
    /\ IsStd /\ WasSet
    /\ call.capacity >= CONTENT_SIZE
    /\ call.allocs = << >>
    /\ call.value = Text(2 * CONTENT_SIZE - 1, "latin")
    /\ std_string_get_value(this, mem) = Return(Str(call.value))

\* C2, as claimed: a write of fewer than 16 bytes goes to the inline buffer,
\* leaves capacity 15 and allocates nothing, whatever the capacity before.
C2_ShortWriteAlwaysInline ==
    (IsStd /\ WasSet /\ WrittenLength < CONTENT_SIZE) =>
        /\ call.allocs = << >>
        /\ WroteAt(InlineAddress)
        /\ std_string_capacity(this, mem) = CONTENT_SIZE - 1

\* C2, amended: a write of fewer than 16 bytes allocates nothing; with a
\* capacity below 16 before it the bytes go to the inline buffer, and capacity
\* is 15 afterwards when it was 15 or was exceeded by the new length (a smaller
\* capacity that holds the string is kept); with a capacity of 16 or more the
\* bytes go to the existing heap buffer and capacity is unchanged.
C2_ShortWrite ==
    (IsStd /\ WasSet /\ WrittenLength < CONTENT_SIZE) =>
        /\ call.allocs = << >>
        /\ call.capacity < CONTENT_SIZE =>
            /\ WroteAt(InlineAddress)
            /\ std_string_capacity(this, mem) =
                  IF call.capacity = CONTENT_SIZE - 1 \/ WrittenLength > call.capacity
                  THEN CONTENT_SIZE - 1 ELSE call.capacity
        /\ call.capacity >= CONTENT_SIZE =>
            /\ WroteAt(std_string_pointer(this, mem))
            /\ \E block \in blocks : block.base = std_string_pointer(this, mem)
            /\ std_string_capacity(this, mem) = call.capacity

\* a 15-byte text written inline into a string of capacity 15
C2_Witness ==
    /\ IsStd /\ WasSet
    /\ WrittenLength = CONTENT_SIZE - 1
    /\ call.capacity = CONTENT_SIZE - 1
    /\ call.allocs = << >>
    /\ WroteAt(InlineAddress)
    /\ std_string_capacity(this, mem) = CONTENT_SIZE - 1

\* C3, as claimed: every write of L >= 16 bytes makes exactly one allocate
\* call, of the smallest power of two >= L + 1, whatever the capacity before.
C3_LongWriteAlwaysAllocates ==
    (IsStd /\ WasSet /\ WrittenLength >= CONTENT_SIZE) =>
        /\ Len(call.allocs) = 1
        /\ SmallestPowerOfTwoAtLeast(call.allocs[1].size, WrittenLength + 1)

\* C3, amended: a write of L >= 16 bytes that exceeds the capacity before it
\* makes exactly one allocate call, of the smallest power of two >= L + 1; one
\* that fits the capacity before it makes none.
C3_LongWrite ==
    (IsStd /\ WasSet /\ WrittenLength >= CONTENT_SIZE) =>
        IF WrittenLength > call.capacity
        THEN /\ Len(call.allocs) = 1
             /\ SmallestPowerOfTwoAtLeast(call.allocs[1].size, WrittenLength + 1)
        ELSE call.allocs = << >>

\* 31 bytes written to an inline string: one allocation of exactly 32 bytes
C3_Witness ==
    /\ IsStd /\ WasSet
    /\ WrittenLength = 2 * CONTENT_SIZE - 1
    /\ call.capacity = CONTENT_SIZE - 1
    /\ Len(call.allocs) = 1
    /\ call.allocs[1].size = 2 * CONTENT_SIZE

\* the buffer a write of set_value went to can hold `room` bytes from there
StdDestination(address, room) ==
    \/ address = InlineAddress /\ room = CONTENT_SIZE
    \/ \E block \in blocks : address = block.base /\ room = block.size
OldDestination(address, room) ==
    \E block \in blocks :
        /\ address = block.base + old_std_long_string_size(this.config)
        /\ room = block.size - old_std_long_string_size(this.config)

\* C4: after every set_value of either variant the stored length is the
\* encoded length, length <= capacity, and the length + 1 bytes written stay
\* inside the destination buffer (16 inline bytes, the allocated size, or the
\* allocated size less the header), which capacity + 1 bytes fit as well.
C4_BufferSafety ==
    WasSet =>
        LET length == IF IsStd THEN std_string_length(this, mem)
                      ELSE old_std_string_length(this, mem)
            capacity == IF IsStd THEN std_string_capacity(this, mem)
                        ELSE old_std_string_capacity(this, mem)
        IN  /\ length = WrittenLength
            /\ length <= capacity
            /\ Len(call.writes) = 1
            /\ call.writes[1].size = WrittenLength + 1
            /\ \E room \in 1 .. MemSize :
                /\ IF IsStd THEN StdDestination(call.writes[1].address, room)
                   ELSE OldDestination(call.writes[1].address, room)
                /\ call.writes[1].size <= room
                /\ capacity + 1 <= room

\* an old_std_string grown to hold 31 bytes
C4_Witness ==
    /\ IsOld /\ WasSet
    /\ WrittenLength = 2 * CONTENT_SIZE - 1
    /\ call.allocs # << >>
    /\ old_std_string_length(this, mem) = WrittenLength

\* what get_value has to decode: the bytes at the inline buffer and the bytes
\* at the address the pointer slot holds
StoredInline == decode(read_at(mem, InlineAddress, std_string_length(this, mem)))
StoredAtPointer ==
    decode(read_at(mem, std_string_pointer(this, mem), std_string_length(this, mem)))

\* C5: std_string.get_value returns the inline bytes decoded when capacity < 16
\* and they decode, else the bytes at the heap pointer decoded, and the empty
\* string, raising nothing, when those do not decode either.
C5_GetValueNeverRaises ==
    (/\ IsStd /\ call.name = "get_value"
     /\ mapped(std_string_pointer(this, mem), std_string_length(this, mem))) =>
        ret = IF std_string_capacity(this, mem) < CONTENT_SIZE /\ StoredInline.ok
              THEN Return(Str(StoredInline.text))
              ELSE IF StoredAtPointer.ok
              THEN Return(Str(StoredAtPointer.text))
              ELSE Return(Str(<< >>))

\* C6: old_std_string.get_value returns the content decoded as text, so that
\* get_value after set_value(v) returns v.
C6_OldRoundTrip ==
    (IsOld /\ WasSet) => old_std_string_get_value(this, mem) = Return(Str(call.value))

----------------------------------------------------------------------------
(* Properties of the field descriptors and of closest_power_of_two         *)

IsScalar == this.type \in ScalarKinds

\* C7: for every PlatformConfig and every scalar field kind, compute_size and
\* compute_alignment return the same number.
C7_SizeEqualsAlignment ==
    IsScalar =>
        /\ call.name = "compute_size" =>
              ret = Return(scalar_compute_alignment(this.type, call.config))
        /\ call.name = "compute_alignment" =>
              ret = Return(scalar_compute_size(this.type, call.config))

\* the alignment of Long on 64-bit Windows is its size there, 4
C7_Witness ==
    /\ this.type = "Long"
    /\ call.name = "compute_alignment"
    /\ call.config = [bits |-> 64, platform |-> "WINDOWS"]
    /\ ret = Return(4)

\* C8: Long and ULong are 8 bytes exactly on a 64-bit target that is not
\* Windows and 4 bytes on every other; LongLong and ULongLong are 8 everywhere.
C8_LongSizes ==
    call.name = "compute_size" =>
        /\ this.type \in {"Long", "ULong"} =>
            /\ (ret = Return(8)) <=>
                  (call.config.bits = 64 /\ call.config.platform # "WINDOWS")
            /\ ret \in {Return(4), Return(8)}
        /\ this.type \in {"LongLong", "ULongLong"} => ret = Return(8)

\* Long on 64-bit Linux is 8 bytes
C8_Witness ==
    /\ this.type = "Long"
    /\ call.name = "compute_size"
    /\ call.config = [bits |-> 64, platform |-> "LINUX"]
    /\ ret = Return(8)

\* C9: ArrayField.compute_size is the element size times the declared length,
\* and raises TypeError when no length is declared; the call reads, writes and
\* allocates nothing in the remote memory.
C9_ArraySize ==
    [][(this.type = "ArrayField" /\ call'.name = "compute_size") =>
          /\ ret' = IF this.length = << >>
                    THEN Raise("TypeError")
                    ELSE Return(scalar_compute_size(this.element, call'.config)
                                * this.length[1])
          /\ UNCHANGED <<mem, heapTop, blocks>>]_vars

\* the size of an array of no declared length was asked for, and TypeError raised
C9_Witness ==
    /\ this.type = "ArrayField"
    /\ this.length = << >>
    /\ call.name = "compute_size"
    /\ ret = Raise("TypeError")

\* C10: closest_power_of_two(n) is the smallest power of two >= n; it returns
\* 2^k for 2^k and 2^(k+1) for 2^k + 1.
C10_ClosestPowerOfTwo ==
    call.name = "closest_power_of_two" =>
        /\ ret.raised = "none"
        /\ SmallestPowerOfTwoAtLeast(ret.value, call.value)
        /\ IsPowerOfTwo(call.value) => ret.value = call.value
        /\ (call.value > 1 /\ IsPowerOfTwo(call.value - 1)) =>
              ret.value = 2 * (call.value - 1)

\* closest_power_of_two(65) = 128
C10_Witness ==
    /\ call.name = "closest_power_of_two"
    /\ call.value = 65
    /\ ret = Return(128)

\* C19: Int and UInt take 2 bytes when the target has fewer than 32 bits and
\* 4 bytes on 32-bit and 64-bit targets, whatever the operating system.
C19_IntSizes ==
    (call.name = "compute_size" /\ this.type \in {"Int", "UInt"}) =>
        /\ call.config.bits < 32 => ret = Return(2)
        /\ call.config.bits \in {32, 64} => ret = Return(4)
        /\ \A platform \in Platforms :
              ret = Return(scalar_compute_size(this.type,
                        [bits |-> call.config.bits, platform |-> platform]))

\* Int on 64-bit Linux, where Long is 8 bytes, is still 4 bytes
C19_Witness ==
    /\ this.type = "Int"
    /\ call.name = "compute_size"
    /\ call.config = [bits |-> 64, platform |-> "LINUX"]
    /\ ret = Return(4)

\* C20: ISize, USize and Size take bits / 8 bytes (1, 2, 4, 8 for 8, 16, 32,
\* 64 bits); the three kinds agree, whatever the operating system.
C20_PointerWideSizes ==
    (call.name = "compute_size" /\ this.type \in {"ISize", "USize", "Size"}) =>
        /\ ret = Return(call.config.bits \div 8)
        /\ \A kind \in {"ISize", "USize", "Size"}, platform \in Platforms :
              ret = Return(scalar_compute_size(kind,
                        [bits |-> call.config.bits, platform |-> platform]))

\* Size on 64-bit Windows, where Long is 4 bytes, is 8 bytes
C20_Witness ==
    /\ this.type = "Size"
    /\ call.name = "compute_size"
    /\ call.config = [bits |-> 64, platform |-> "WINDOWS"]
    /\ ret = Return(8)

----------------------------------------------------------------------------
(* Properties of the steps of set_value: what one call changes and keeps   *)

\* the step is a set_value on a std_string / an old_std_string
StdSets == IsStd /\ call'.name = "set_value" /\ ~call'.failed
OldSets == IsOld /\ call'.name = "set_value" /\ ~call'.failed

\* the encoded length of the value this step writes, and the bytes it writes
NewLength == Len(encode(call'.value))
NewData == encode(call'.value) \o NULL_BYTE

\* the step wrote NewData at address, in one write
Wrote(address) ==
    /\ call'.writes = <<[address |-> address, size |-> NewLength + 1]>>
    /\ read_at(mem', address, NewLength + 1) = NewData

\* an extent of memory: size bytes from address
Region(address, size) == {a \in Addresses : address <= a /\ a < address + size}

\* the step changed no byte outside the given addresses
ChangedOnly(addresses) == \A a \in Addresses \ addresses : mem'[a] = mem[a]

\* the std_string's own length field
StdLengthField ==
    Region(field_address(this.address, std_string_length_offset(this.config)),
           USize_compute_size(this.config))

\* C15: a std_string.set_value whose encoded length is at most the capacity
\* allocates nothing and leaves the capacity field as it was; with a capacity
\* of 16 or more the heap pointer is unchanged and the bytes go to the buffer it
\* points to, with a capacity below 16 they go to the inline buffer; only the
\* length field and the bytes written change.
C15_StdInPlace ==
    [][(StdSets /\ NewLength <= std_string_capacity(this, mem)) =>
          /\ call'.allocs = << >>
          /\ heapTop' = heapTop /\ blocks' = blocks
          /\ std_string_capacity(this, mem') = std_string_capacity(this, mem)
          /\ IF std_string_capacity(this, mem) < CONTENT_SIZE
             THEN /\ Wrote(InlineAddress)
                  /\ ChangedOnly(StdLengthField \cup Region(InlineAddress, NewLength + 1))
             ELSE /\ std_string_pointer(this, mem') = std_string_pointer(this, mem)
                  /\ Wrote(std_string_pointer(this, mem))
                  /\ ChangedOnly(StdLengthField
                         \cup Region(std_string_pointer(this, mem), NewLength + 1))]_vars

\* 15 bytes written in place into the heap buffer of a string of capacity 31
C15_Witness ==
    /\ IsStd /\ WasSet
    /\ WrittenLength = CONTENT_SIZE - 1
    /\ call.capacity = 2 * CONTENT_SIZE - 1
    /\ call.allocs = << >>
    /\ std_string_capacity(this, mem) = 2 * CONTENT_SIZE - 1
    /\ WroteAt(std_string_pointer(this, mem))
    /\ std_string_pointer(this, mem) = StdHeapBlock(this.config).base

\* C16: a std_string.set_value whose encoded length L exceeds the capacity:
\* with L < 16 the bytes go to the inline buffer, capacity becomes 15 and
\* nothing is allocated; otherwise S, the smallest power of two >= L + 1, bytes
\* are allocated, the pointer slot holds the address allocate returned, the
\* bytes and the terminator lie at that address, and capacity becomes S - 1.
C16_StdGrowth ==
    [][(StdSets /\ NewLength > std_string_capacity(this, mem)) =>
          IF NewLength < CONTENT_SIZE
          THEN /\ call'.allocs = << >>
               /\ heapTop' = heapTop /\ blocks' = blocks
               /\ Wrote(InlineAddress)
               /\ std_string_capacity(this, mem') = CONTENT_SIZE - 1
          ELSE /\ Len(call'.allocs) = 1
               /\ SmallestPowerOfTwoAtLeast(call'.allocs[1].size, NewLength + 1)
               /\ call'.allocs[1].base = allocate(heapTop, call'.allocs[1].size)
               /\ blocks' = blocks \cup {call'.allocs[1]}
               /\ std_string_pointer(this, mem') = call'.allocs[1].base
               /\ Wrote(call'.allocs[1].base)
               /\ std_string_capacity(this, mem') = call'.allocs[1].size - 1]_vars

\* 15 bytes written to a string of capacity 0: inline, capacity 15
C16_Witness ==
    /\ IsStd /\ WasSet
    /\ WrittenLength = CONTENT_SIZE - 1
    /\ call.capacity = 0
    /\ call.allocs = << >>
    /\ WroteAt(InlineAddress)
    /\ std_string_capacity(this, mem) = CONTENT_SIZE - 1

\* the header and the content region of every buffer the old_std_string had
OldBlocks == UNION {Region(block.base, block.size) : block \in blocks}

\* C17: an old_std_string.set_value whose encoded length L exceeds the
\* header's capacity allocates S bytes, S the smallest power of two
\* >= L + 1 + header size; the pointer becomes the new address + header size;
\* the new header holds capacity S - header size - 1, the ref_count of the old
\* header and length L; the bytes lie after the new header; the old header and
\* buffer keep every byte.
C17_OldGrowth ==
    [][(OldSets /\ NewLength > old_std_string_capacity(this, mem)) =>
          LET header_size == old_std_long_string_size(this.config)
          IN  /\ Len(call'.allocs) = 1
              /\ SmallestPowerOfTwoAtLeast(call'.allocs[1].size,
                                           NewLength + 1 + header_size)
              /\ call'.allocs[1].base = allocate(heapTop, call'.allocs[1].size)
              /\ blocks' = blocks \cup {call'.allocs[1]}
              /\ old_std_string_pointer(this, mem') = call'.allocs[1].base + header_size
              /\ old_std_string_capacity(this, mem') =
                    call'.allocs[1].size - header_size - 1
              /\ old_std_string_ref_count(this, mem') = old_std_string_ref_count(this, mem)
              /\ old_std_string_length(this, mem') = NewLength
              /\ Wrote(call'.allocs[1].base + header_size)
              /\ \A a \in OldBlocks : mem'[a] = mem[a]]_vars

\* an old_std_string of ref_count -1 grown to hold 31 bytes keeps ref_count -1
C17_Witness ==
    /\ IsOld /\ WasSet
    /\ WrittenLength = 2 * CONTENT_SIZE - 1
    /\ Len(call.allocs) = 1
    /\ old_std_string_pointer(this, mem) =
          call.allocs[1].base + old_std_long_string_size(this.config)
    /\ old_std_string_ref_count(this, mem) = -1
    /\ old_std_string_capacity(this, mem) =
          call.allocs[1].size - old_std_long_string_size(this.config) - 1

\* C18: an old_std_string.set_value whose encoded length is at most the
\* header's capacity allocates nothing, keeps the pointer, the capacity and the
\* ref_count, sets length to the encoded length and writes the bytes and the
\* terminator at the start of the content region the pointer gives.
C18_OldInPlace ==
    [][(OldSets /\ NewLength <= old_std_string_capacity(this, mem)) =>
          /\ call'.allocs = << >>
          /\ heapTop' = heapTop /\ blocks' = blocks
          /\ old_std_string_pointer(this, mem') = old_std_string_pointer(this, mem)
          /\ old_std_string_capacity(this, mem') = old_std_string_capacity(this, mem)
          /\ old_std_string_ref_count(this, mem') = old_std_string_ref_count(this, mem)
          /\ old_std_string_length(this, mem') = NewLength
          /\ Wrote(old_std_string_pointer(this, mem))
          /\ \E room \in 1 .. MemSize :
                /\ OldDestination(old_std_string_pointer(this, mem), room)
                /\ NewLength + 1 <= room]_vars

\* 15 bytes written in place into an old_std_string grown before
C18_Witness ==
    /\ IsOld /\ WasSet
    /\ WrittenLength = CONTENT_SIZE - 1
    /\ call.capacity >= WrittenLength
    /\ call.allocs = << >>
    /\ old_std_string_capacity(this, mem) = call.capacity
    /\ old_std_string_length(this, mem) = WrittenLength

----------------------------------------------------------------------------
(* Properties of the primitive fields                                      *)

\* the read came right after a write to the same address in the same order
ReadBack ==
    /\ call.name = "read"
    /\ call.last.name = "write"
    /\ call.last.address = call.address
    /\ call.last.order = call.order

\* C11: for every primitive field kind, write(state, address, v, order)
\* followed by read(state, address, order) returns v: read and write of a kind
\* go through the read_<T> / write_<T> pair of one T, with the address and the
\* byte order they were given.
C11_FieldRoundTrip ==
    /\ ReadBack => ret = Return(call.last.value)
    /\ \A kind \in ScalarKinds : Field_read_type(kind) = Field_write_type(kind)

\* -32768 written as a Short in big-endian order on a little-endian machine
\* is read back as -32768, from the two bytes 128, 0 at the address
C11_Witness ==
    /\ ReadBack
    /\ this.type = "Short" /\ this.native = "LITTLE"
    /\ call.order = "BIG"
    /\ call.last.value = -32768
    /\ read_at(mem, call.address, I16_SIZE) = <<128, 0>>
    /\ ret = Return(-32768)

----------------------------------------------------------------------------
(* Properties of the layout of composites                                  *)

LaidOut(type) == this.type = type /\ call.name = "compute_layout"

\* size and alignment of the i-th member on the platform of the call
MemberSize(i) == field_compute_size(this.fields[i], call.config)
MemberAlignment(i) == field_compute_alignment(this.fields[i], call.config)

\* n is the least multiple of alignment that is >= cursor
RoundedUp(n, cursor, alignment) ==
    n >= cursor /\ n % alignment = 0 /\ n - cursor < alignment

\* C12: in a struct's layout the fields follow one another in declaration
\* order, each at the end of the one before rounded up to its own alignment:
\* every offset is a multiple of the field's alignment, no two fields
\* overlap, and the size is the end of the last field rounded up to the struct
\* alignment, the largest member alignment (1 at least).  U8, U32, U16 lie at
\* 0, 4, 8 in a struct of size 12.
C12_StructLayout ==
    LaidOut("Struct") =>
        LET layout == ret.value
            n == Len(this.fields)
            end(i) == IF i = 0 THEN 0 ELSE layout.offsets[i] + MemberSize(i)
        IN  /\ Len(layout.offsets) = n
            /\ \A i \in 1 .. n :
                /\ RoundedUp(layout.offsets[i], end(i - 1), MemberAlignment(i))
                /\ layout.offsets[i] % MemberAlignment(i) = 0
                /\ \A j \in 1 .. (i - 1) : end(j) <= layout.offsets[i]
            /\ layout.alignment >= 1
            /\ \A i \in 1 .. n : layout.alignment >= MemberAlignment(i)
            /\ n > 0 => \E i \in 1 .. n : layout.alignment = MemberAlignment(i)
            /\ RoundedUp(layout.size, end(n), layout.alignment)
            /\ this.fields = <<[type |-> "U8"], [type |-> "U32"], [type |-> "U16"]>> =>
                  layout.offsets = <<0, 4, 8>> /\ layout.size = 12

\* the struct of U8, U32, U16 was laid out: offsets 0, 4, 8, size 12
C12_Witness ==
    /\ LaidOut("Struct")
    /\ this.fields = <<[type |-> "U8"], [type |-> "U32"], [type |-> "U16"]>>
    /\ ret.value.offsets = <<0, 4, 8>>
    /\ ret.value.size = 12
    /\ ret.value.alignment = 4

\* C13: in a union's layout every field lies at offset 0, the size is the
\* largest member size and the alignment the largest member alignment; the
\* union of a 16-byte inline array and a pointer, std_string_content, has
\* size 16.
C13_UnionLayout ==
    LaidOut("Union") =>
        LET layout == ret.value
            n == Len(this.fields)
        IN  /\ Len(layout.offsets) = n
            /\ \A i \in 1 .. n : layout.offsets[i] = 0
            /\ \A i \in 1 .. n : layout.size >= MemberSize(i)
            /\ \A i \in 1 .. n : layout.alignment >= MemberAlignment(i)
            /\ n > 0 => /\ \E i \in 1 .. n : layout.size = MemberSize(i)
                        /\ \E i \in 1 .. n : layout.alignment = MemberAlignment(i)
            /\ this.fields = <<ArrayField("I8", <<CONTENT_SIZE>>), PointerField>> =>
                  /\ layout.size = 16
                  /\ layout.size = std_string_content_size(call.config)
                  /\ layout.alignment = std_string_content_alignment(call.config)

\* std_string_content laid out for a 64-bit platform: size 16, alignment 8
C13_Witness ==
    /\ LaidOut("Union")
    /\ this.fields = <<ArrayField("I8", <<CONTENT_SIZE>>), PointerField>>
    /\ call.config.bits = 64
    /\ ret.value.offsets = <<0, 0>>
    /\ ret.value.size = 16
    /\ ret.value.alignment = 8

----------------------------------------------------------------------------
(* Properties of the Array proxy                                           *)

\* the element the step indexes lies at the base address + index * size
ElementSize == scalar_compute_size(this.element, this.state.config)
ElementAddress == this.address + call'.index * ElementSize

\* C14: get(index) and set(index, value) of an Array proxy fail with a bounds
\* error, touching nothing, when a length n is declared and index >= n;
\* otherwise they read or write the element at base address + index * element
\* size and no other address.  For U16 and length 4 at A, get(2) reads A + 4
\* and get(4) fails.
C14_ArrayIndexing ==
    [][(this.type = "Array" /\ call'.name \in {"get", "set"}) =>
          IF this.length # << >> /\ call'.index >= this.length[1]
          THEN /\ ret' = Raise("IndexError")
               /\ call'.accesses = << >>
               /\ mem' = mem
          ELSE /\ call'.accesses = <<[address |-> ElementAddress, size |-> ElementSize]>>
               /\ ChangedOnly(IF call'.name = "set"
                              THEN Region(ElementAddress, ElementSize) ELSE {})
               /\ state_read(Field_read_type(this.element), mem', ElementAddress,
                             this.order, this.state)
                    = IF call'.name = "set" THEN call'.value ELSE ret'.value
               /\ ret'.raised = "none"
               /\ (/\ this.element = "U16" /\ this.length = <<4>>
                   /\ call'.name = "get" /\ call'.index = 2) =>
                      call'.accesses[1].address = this.address + 4]_vars

\* get(4) on the array of four U16 failed after get(2) could have succeeded:
\* element 2, set before, lies in the two bytes at A + 4
C14_Witness ==
    /\ this.type = "Array" /\ this.element = "U16" /\ this.length = <<4>>
    /\ call.name = "get" /\ call.index = 4
    /\ ret = Raise("IndexError")
    /\ Array_get(this, mem, 2) = Return(1)
    /\ read_at(mem, this.address + 4, I16_SIZE) # <<0, 0>>

----------------------------------------------------------------------------
(* Properties of ArrayField, Void and ActualField                          *)

\* C21: ArrayField.read returns an Array proxy bound to the state, address,
\* element, length and order it was given and ArrayField.write returns
\* nothing, for any value; neither changes a byte of the remote memory, at
\* mapped and unmapped addresses alike.  ArrayField.compute_alignment is the
\* element's compute_alignment.
C21_ArrayFieldAccess ==
    [][(this.type = "ArrayField" /\ call'.name \in {"read", "write"}) =>
          /\ mem' = mem
          /\ call'.name = "read" =>
                ret' = Return([type |-> "Array", state |-> call'.state,
                               address |-> call'.address, element |-> this.element,
                               length |-> this.length, order |-> call'.order])
          /\ call'.name = "write" => ret' = Return(None)
          /\ \A config \in PlatformConfigs :
                ArrayField_compute_alignment(this, config)
                    = scalar_compute_alignment(this.element, config)]_vars

\* a proxy read at an unmapped address from an array of unknown length
C21_Witness ==
    /\ this.type = "ArrayField" /\ this.length = << >>
    /\ call.name = "read"
    /\ ~mapped(call.address, 1)
    /\ ret.value.type = "Array"
    /\ ret.value.address = call.address
    /\ mem = Blank(255)

\* C22: Void has compute_size 0 and compute_alignment 0 for every config;
\* its read returns None and its write returns nothing, at any address,
\* without changing a byte of the remote memory.
C22_Void ==
    [][(this.type = "Void" /\ call'.name # "none") =>
          /\ mem' = mem
          /\ call'.name \in {"compute_size", "compute_alignment"} => ret' = Return(0)
          /\ call'.name \in {"read", "write"} => ret' = Return(None)]_vars

\* Void was asked for its alignment on 64-bit Linux: 0
C22_Witness ==
    /\ this.type = "Void"
    /\ call.name = "compute_alignment"
    /\ call.config = [bits |-> 64, platform |-> "LINUX"]
    /\ ret = Return(0)

\* where the named field of the instance lies, and how wide it is
NamedAddress == this.instance.address + this.field.offset
NamedSize == scalar_compute_size(this.field.type, this.instance.state.config)
\* what the state of the instance reads there in the order of the instance
NamedValue(m) ==
    state_read(Field_read_type(this.field.type), m, NamedAddress,
               this.instance.order, this.instance.state)

\* C23: a named field of a composite instance is read and written at
\* instance.address + field.offset, through the instance's state in the
\* instance's byte order, and no byte elsewhere changes; through the type the
\* field descriptor itself is returned and nothing is accessed; deleting a
\* field raises an error and changes nothing.
C23_NamedFieldAccess ==
    [][this.type = "ActualField" =>
          /\ (call'.name = "get" /\ this.instance.type = "Base") =>
                mem' = mem /\ ret' = Return(NamedValue(mem))
          /\ (call'.name = "get" /\ this.instance = None) =>
                mem' = mem /\ ret' = Return(this.field)
          /\ call'.name = "set" =>
                /\ ChangedOnly(Region(NamedAddress, NamedSize))
                /\ NamedValue(mem') = call'.value
          /\ call'.name = "delete" =>
                mem' = mem /\ ret' = Raise("AttributeError")]_vars

\* a Short at offset 4 set to -32768 through a big-endian instance at 16:
\* the bytes 128, 0 lie at 20, and get returns -32768
C23_Witness ==
    /\ this.type = "ActualField" /\ this.instance.type = "Base"
    /\ this.field = [type |-> "Short", offset |-> 4]
    /\ this.instance.order = "BIG"
    /\ call.name = "get"
    /\ read_at(mem, 20, I16_SIZE) = <<128, 0>>
    /\ ret = Return(-32768)

----------------------------------------------------------------------------
(* Properties of fetch_fields                                              *)

\* the classes of the mro that declare name as a field: 1 is the type itself
Declaring(name) ==
    {c \in 1 .. Len(this.mro) :
        \E p \in 1 .. Len(this.mro[c]) :
            this.mro[c][p].name = name /\ is_field(this.mro[c][p].value)}
MostBase(name) == CHOOSE c \in Declaring(name) : \A d \in Declaring(name) : d <= c
MostDerived(name) == CHOOSE c \in Declaring(name) : \A d \in Declaring(name) : c <= d
\* where class c declares name, and the value it gives it
PositionIn(c, name) ==
    CHOOSE p \in 1 .. Len(this.mro[c]) : this.mro[c][p].name = name
ValueIn(c, name) == this.mro[c][PositionIn(c, name)].value

\* name1 is declared first before name2 is: in a more-base class, or earlier
\* in the same class
DeclaredBefore(name1, name2) ==
    \/ MostBase(name1) > MostBase(name2)
    \/ /\ MostBase(name1) = MostBase(name2)
       /\ PositionIn(MostBase(name1), name1) < PositionIn(MostBase(name2), name2)

\* C24: fetch_fields visits the classes from the most-base to the
\* most-derived (the declarations of a name are yielded in that order); its
\* table holds every name declared as a field exactly once,
\* with the descriptor of the most-derived class that declares it, at the
\* position its first, most-base declaration gives it.
C24_FetchFields ==
    call.name = "fetch_fields" =>
        LET table == ret.value
            yielded == call.yielded
        IN  /\ \A name \in AttributeNames :
                  LET of_name == SelectSeq(yielded, LAMBDA pair : pair.name = name)
                  IN  /\ Len(of_name) = Cardinality(Declaring(name))
                      /\ \A c \in Declaring(name) :
                            of_name[1 + Cardinality({d \in Declaring(name) : d > c})].value
                                = ValueIn(c, name)
            /\ \A i, j \in 1 .. Len(table) : table[i].name = table[j].name => i = j
            /\ {table[i].name : i \in 1 .. Len(table)}
                  = {name \in AttributeNames : Declaring(name) # {}}
            /\ \A i \in 1 .. Len(table) :
                  table[i].value = ValueIn(MostDerived(table[i].name), table[i].name)
            /\ \A i, j \in 1 .. Len(table) :
                  i < j => DeclaredBefore(table[i].name, table[j].name)

\* the base declares a then b, the type declares b anew and then a: the table
\* keeps a before b, with the descriptors of the type
C24_Witness ==
    /\ call.name = "fetch_fields"
    /\ this.mro = <<<<[name |-> "b", value |-> [type |-> "U16"]],
                      [name |-> "a", value |-> [type |-> "U16"]]>>,
                    <<[name |-> "a", value |-> [type |-> "U8"]],
                      [name |-> "b", value |-> [type |-> "U8"]]>>,
                    << >>>>
    /\ ret.value = <<[name |-> "a", value |-> [type |-> "U16"]],
                     [name |-> "b", value |-> [type |-> "U16"]]>>

----------------------------------------------------------------------------
(* Properties of set_value over sequences of calls and under failure       *)

\* C25: no std_string.set_value, in any sequence of calls, lowers the
\* capacity field, and a call calls allocate if and only if the new encoded
\* length is greater than the capacity before the call and at least 16.
C25_CapacityNeverDecreases ==
    [][(IsStd /\ call'.name = "set_value") =>
          /\ std_string_capacity(this, mem') >= std_string_capacity(this, mem)
          /\ (call'.allocs # << >> \/ call'.failed)
                <=> (/\ NewLength > std_string_capacity(this, mem)
                     /\ NewLength >= CONTENT_SIZE)]_vars

\* a second growth: a string of capacity 31 took 32 bytes and has capacity 63
C25_Witness ==
    /\ IsStd /\ WasSet
    /\ call.capacity = 2 * CONTENT_SIZE - 1
    /\ WrittenLength = 2 * CONTENT_SIZE
    /\ Len(call.allocs) = 1
    /\ std_string_capacity(this, mem) = 4 * CONTENT_SIZE - 1

\* C26: when allocate fails in std_string.set_value the error reaches the
\* caller as it is and the string is as before the call: the capacity it had,
\* and a length that is still at most the capacity.
C26_AllocateFailureKeepsString ==
    (IsStd /\ call.name = "set_value" /\ call.failed) =>
        /\ ret = Raise("MemoryAccessError")
        /\ std_string_capacity(this, mem) = call.capacity
        /\ std_string_length(this, mem) <= std_string_capacity(this, mem)

\* C27: when allocate fails in old_std_string.set_value the error reaches
\* the caller as it is and no byte of the remote memory has changed: the
\* pointer, the old header (capacity, length, ref_count) and the content are
\* as before the call, and nothing was allocated.
C27_OldAllocateFailure ==
    [][(IsOld /\ call'.name = "set_value" /\ call'.failed) =>
          /\ ret' = Raise("MemoryAccessError")
          /\ mem' = mem
          /\ old_std_string_pointer(this, mem') = old_std_string_pointer(this, mem)
          /\ old_std_string_capacity(this, mem') = old_std_string_capacity(this, mem)
          /\ old_std_string_length(this, mem') = old_std_string_length(this, mem)
          /\ old_std_string_ref_count(this, mem') = old_std_string_ref_count(this, mem)
          /\ call'.writes = << >>
          /\ heapTop' = heapTop /\ blocks' = blocks]_vars

\* a set_value of 31 bytes failed on an empty old_std_string, which is
\* still empty in its first buffer
C27_Witness ==
    /\ IsOld
    /\ call.name = "set_value" /\ call.failed
    /\ call.value = Text(2 * CONTENT_SIZE - 1, "latin")
    /\ ret = Raise("MemoryAccessError")
    /\ old_std_string_length(this, mem) = 0
    /\ old_std_string_pointer(this, mem)
          = OldBlock(this.config).base + old_std_long_string_size(this.config)
    /\ blocks = {OldBlock(this.config)}

----------------------------------------------------------------------------
(* Properties of ProfileModel                                              *)

\* C28: banned is always the negation of active, and after the assignment
\* banned = b, from any state and for either b, banned is b and active is
\* not b.
C28_BannedAssignment ==
    (this.type = "ProfileModel") =>
        /\ ProfileModel_get_banned(this) = ~this.active
        /\ (call.name = "get_banned") => ret = Return(Bool(~this.active))
        /\ (call.name = "set_banned") =>
              /\ ProfileModel_get_banned(this) = call.banned
              /\ this.active = ~call.banned

----------------------------------------------------------------------------
(* Properties of convert_animation_sheet_data                              *)

\* the items of the document that belong to an animation
ItemsOf(name) ==
    {i \in DOMAIN this.animation_container : this.animation_container[i].key.name = name}

\* the item that holds frame k of an animation
ItemOf(name, k) ==
    CHOOSE i \in ItemsOf(name) : int(this.animation_container[i].key.frame) = k

\* the z value a frame of the document gives to the layer of a part
ZOf(item, part) ==
    LET layer_dicts == this.animation_container[item].value
        j == CHOOSE j \in DOMAIN layer_dicts : int(layer_dicts[j].texture.part) = part
    IN int(layer_dicts[j].z_value)

\* C29: whatever the order of the frames 1..n of an animation in the input
\* container, its frame list has n entries, entry k being frame k with all
\* of its layers, and the layers of every frame are in ascending z order.
C29_FramesInOrder ==
    (this.type = "document" /\ call.name = "convert_animation_sheet_data") =>
        \A name \in {"run", "idle"} :
            LET n == Cardinality(ItemsOf(name))
                frames == data_get(ret.value, name)
            IN /\ Len(frames) = n
               /\ \A k \in 1 .. n :
                     LET item == ItemOf(name, k)
                         layer_dicts == this.animation_container[item].value
                     IN /\ Len(frames[k]) = Len(layer_dicts)
                        /\ {frames[k][j].part : j \in DOMAIN frames[k]}
                              = {int(layer_dicts[j].texture.part) : j \in DOMAIN layer_dicts}
                        /\ \A j \in 1 .. Len(frames[k]) - 1 :
                              ZOf(item, frames[k][j].part) <= ZOf(item, frames[k][j + 1].part)

----------------------------------------------------------------------------
(* Properties of AnimationSheet                                            *)

\* the calls of the log that went through load
SheetLoads == {i \in DOMAIN call.log : call.log[i].loads}
\* the most recent of them
LastLoad == CHOOSE i \in SheetLoads : \A j \in SheetLoads : j <= i
\* the most recent load succeeded and no unload followed it
LoadedLast ==
    /\ SheetLoads # {}
    /\ call.log[LastLoad].file.ok
    /\ \A j \in DOMAIN call.log : j > LastLoad => call.log[j].name # "unload"

====
